---- MODULE Spec2Model ----
(***************************************************************************)
(* A model of refine.py: the four-stage repair pipeline for MySQL dumps    *)
(* (schema scan, statement partitioner, row repair, assembly).             *)
(*                                                                         *)
(* Text is modelled character by character: a Python str is a sequence of  *)
(* characters, each character a TLA+ string.  ASCII characters are their   *)
(* own one-letter string; the few non-ASCII characters used are named by   *)
(* their code point ("U00E9", "U20AC", "U1F600") and one control character *)
(* is "U0001".                                                             *)
(***************************************************************************)
EXTENDS Integers, Sequences, FiniteSets, TLC

VARIABLES
    \* ---- truncate_value, run on its own (SpecTrunc) ----
    t_pc,              \* position inside truncate_value
    t_value,           \* argument value
    t_col,             \* argument col
    t_inner,           \* local inner
    truncated_bytes,   \* local truncated_bytes
    t_trims,           \* number of times line 250 has run
    t_result           \* returned value

tvars == <<t_pc, t_value, t_col, t_inner, truncated_bytes, t_trims, t_result>>

VARIABLES
    \* ---- refine_sql (Spec) ----
    pc,                  \* the stage refine_sql is in
    input_file,          \* content of the input file when refine_sql is called
    input_path,          \* argument input_file: the path of the input file
    fin,                 \* number of lines of the input read by "for line in fin"
    column_metadata_map, \* table name -> list of column dicts
    inside_create,
    create_block,
    current_table,
    column_index,
    create_file,         \* chunks/<base>_0.sql: None while absent, else its content
    extra_file,          \* chunks/<base>_temp_extra.sql
    json_index_file,     \* chunks/<base>_indexes.json
    insert_temp_file,    \* chunks/<base>_temp.sql
    refined_file,        \* chunks/<base>_temp_refined.sql
    final_output_file,   \* results/<base>.sql
    statements,          \* the slices cut out by write_insert_statements, in order
    table_metadata,
    infile,              \* number of lines of insert_temp_file read in step 3
    current_columns,
    row_buffer,
    accumulating_row,
    meta_lines           \* the input lines that added a table or a column to the map

s1vars == <<fin, column_metadata_map, inside_create, create_block, column_index,
            create_file, json_index_file, meta_lines>>
s2vars == <<insert_temp_file, statements>>
s3vars == <<refined_file, table_metadata, infile, current_columns, row_buffer,
            accumulating_row>>
pvars == <<pc, input_file, input_path, current_table, extra_file, final_output_file,
           s1vars, s2vars, s3vars>>

VARIABLES
    \* ---- fix_row, run on its own (SpecRepair) ----
    r_pc,           \* position inside fix_row
    r_column_lines,   \* the lines of the CREATE TABLE block column_info was built from
    r_row_line,       \* argument row_line
    r_column_info,    \* argument column_info
    r_parts,          \* local parts
    r_tokens,         \* parts as the tokenizer left it, before the column loop
    r_col_pos,        \* number of iterations of "for col in column_info" done
    r_fixed_row       \* returned value

rvars == <<r_pc, r_column_lines, r_row_line, r_column_info, r_parts, r_tokens, r_col_pos, r_fixed_row>>

VARIABLES
    \* ---- app.py: the window and its worker threads (SpecApp) ----
    a_workers,     \* the RefineWorker threads started so far, in order of creation
    a_worker,      \* RefineApp.worker: index of a thread, 0 for None
    a_chunks,      \* the directory "chunks": None while absent, else the names in it
    a_results,     \* the names in the directory "results"
    a_signals,     \* signal emissions of the workers queued for the GUI thread
    a_log_area,    \* the lines in the log widget
    a_progress,    \* value of the progress bar
    a_closed       \* the close of the window has been accepted

avars == <<a_workers, a_worker, a_chunks, a_results, a_signals, a_log_area, a_progress,
           a_closed>>

VARIABLES
    \* ---- one call of refine_sql seen through its log messages (SpecLog) ----
    l_pc,          \* position of the call: <<step, "start" | "body" | "end">>, "returned", "raised"
    log_func,      \* argument log_func: None or Some("callback")
    l_now,         \* datetime.datetime.now(), in seconds
    step_start,    \* the start_time returned by the last log_step_start
    l_delivered,   \* the messages log_func was called with, in order
    l_printed      \* the messages print was called with, in order

lvars == <<l_pc, log_func, l_now, step_start, l_delivered, l_printed>>

vars == <<tvars, pvars, rvars, avars, lvars>>

-----------------------------------------------------------------------------
(* Python values *)

\* Optional values: None is the empty tuple, a present value x is <<x>>.
None == <<>>
Some(x) == <<x>>
IsNone(o) == o = <<>>
Get(o) == o[1]

\* A str literal as the sequence of its characters.
Chars(s) == [i \in 1..Len(s) |-> SubSeq(s, i, i)]

RECURSIVE Flatten(_)
\* ''.join(list); the list is halved so that long texts need little nesting
Flatten(list) ==
    IF list = <<>> THEN <<>>
    ELSE IF Len(list) = 1 THEN list[1]
    ELSE LET m == Len(list) \div 2
         IN Flatten(SubSeq(list, 1, m)) \o Flatten(SubSeq(list, m + 1, Len(list)))

RECURSIVE SeqsUpTo(_, _)
\* All sequences over S of length at most n
SeqsUpTo(S, n) ==
    IF n = 0 THEN {<<>>}
    ELSE LET shorter == SeqsUpTo(S, n - 1)
         IN shorter \cup {Append(t, c) : t \in shorter, c \in S}

-----------------------------------------------------------------------------
(* Character classes *)

UpperLetters == Chars("ABCDEFGHIJKLMNOPQRSTUVWXYZ")
LowerLetters == Chars("abcdefghijklmnopqrstuvwxyz")
Digits == Chars("0123456789")

\* The backtick cannot be written inside a TLA+ string: it is the character BT.
BT == "U0060"

\* The printable ASCII characters in code order, starting at code 32.
AsciiPrintable ==
    Chars(" !\"#$%&'()*+,-./0123456789:;<=>?@ABCDEFGHIJKLMNOPQRSTUVWXYZ[\\]^_")
    \o <<BT>> \o Chars("abcdefghijklmnopqrstuvwxyz{|}~")

\* A piece of dump text written as a literal, where ^ stands for the backtick.
Src(s) == [i \in 1..Len(s) |-> IF SubSeq(s, i, i) = "^" THEN BT ELSE SubSeq(s, i, i)]

Range(f) == {f[i] : i \in DOMAIN f}

IndexIn(c, seq) == CHOOSE i \in 1..Len(seq) : seq[i] = c

\* The non-ASCII and control characters of the model, with their code points.
SpecialChars == {"U0001", "U00E9", "U20AC", "U1F600"}

AllChars == Range(AsciiPrintable) \cup SpecialChars \cup {"\n", "\t", "\r"}

\* The code point of every character of the model
OrdTable ==
    [c \in AllChars |->
        CASE c = "\n" -> 10
          [] c = "\t" -> 9
          [] c = "\r" -> 13
          [] c = "U0001" -> 1
          [] c = "U00E9" -> 233
          [] c = "U20AC" -> 8364
          [] c = "U1F600" -> 128512
          [] OTHER -> 31 + IndexIn(c, AsciiPrintable)]

\* ord(c)
Ord(c) == OrdTable[c]

\* chr(cp), for the code points of the model's characters
Chr(cp) == CHOOSE c \in AllChars : Ord(c) = cp

\* str.isspace() for one character
Whitespace == {" ", "\n", "\t", "\r"}

\* \d of the re module
DigitChars == Range(Digits)

\* \w of the re module on str: letters (any script), digits, underscore
WordChars == Range(UpperLetters) \cup Range(LowerLetters) \cup Range(Digits) \cup {"_", "U00E9"}

\* str.lower() for one character
LowerChar(c) == IF c \in Range(UpperLetters) THEN LowerLetters[IndexIn(c, UpperLetters)] ELSE c

\* str.lower()
Lower(s) == [i \in 1..Len(s) |-> LowerChar(s[i])]

-----------------------------------------------------------------------------
(* str methods *)

\* s[from:] with a 1-based start
From(s, i) == SubSeq(s, i, Len(s))

StartsWith(s, p) == Len(s) >= Len(p) /\ SubSeq(s, 1, Len(p)) = p
EndsWith(s, p) == Len(s) >= Len(p) /\ SubSeq(s, Len(s) - Len(p) + 1, Len(s)) = p

\* p occurs in s at position i
MatchAt(s, i, p) == i >= 1 /\ i + Len(p) - 1 <= Len(s) /\ SubSeq(s, i, i + Len(p) - 1) = p

\* p in s
Contains(s, p) == \E i \in 1..(Len(s) + 1) : MatchAt(s, i, p)

RECURSIVE LStripSet(_, _)
\* str.lstrip(chars)
LStripSet(s, cs) == IF s # <<>> /\ Head(s) \in cs THEN LStripSet(Tail(s), cs) ELSE s

RECURSIVE RStripSet(_, _)
\* str.rstrip(chars)
RStripSet(s, cs) ==
    IF s # <<>> /\ s[Len(s)] \in cs THEN RStripSet(SubSeq(s, 1, Len(s) - 1), cs) ELSE s

\* str.strip()
Strip(s) == RStripSet(LStripSet(s, Whitespace), Whitespace)

\* str.replace(old, new) for a one-character old
Replace(s, old, new) == Flatten([i \in 1..Len(s) |-> IF s[i] = old THEN new ELSE <<s[i]>>])

RECURSIVE SplitOn(_, _)
\* str.split(sep) for a one-character sep
SplitOn(s, sep) ==
    IF \A i \in 1..Len(s) : s[i] # sep THEN <<s>>
    ELSE LET k == CHOOSE i \in 1..Len(s) : s[i] = sep /\ \A j \in 1..(i - 1) : s[j] # sep
         IN <<SubSeq(s, 1, k - 1)>> \o SplitOn(From(s, k + 1), sep)

\* sep.join(list)
JoinWith(list, sep) ==
    Flatten([i \in 1..Len(list) |-> IF i = 1 THEN list[i] ELSE sep \o list[i]])

-----------------------------------------------------------------------------
(* UTF-8: str.encode('utf-8') and bytes.decode('utf-8') *)

\* The bytes of one code point.
EncodeCp(cp) ==
    IF cp < 128 THEN <<cp>>
    ELSE IF cp < 2048 THEN <<192 + (cp \div 64), 128 + (cp % 64)>>
    ELSE IF cp < 65536 THEN
        <<224 + (cp \div 4096), 128 + ((cp \div 64) % 64), 128 + (cp % 64)>>
    ELSE <<240 + (cp \div 262144), 128 + ((cp \div 4096) % 64),
           128 + ((cp \div 64) % 64), 128 + (cp % 64)>>

\* inner.encode('utf-8')
Encode(s) == Flatten([i \in 1..Len(s) |-> EncodeCp(Ord(s[i]))])

IsCont(b) == b >= 128 /\ b <= 191

\* Number of bytes announced by a lead byte, 0 for a byte that cannot lead.
SeqLen(b) ==
    IF b < 128 THEN 1
    ELSE IF b >= 194 /\ b <= 223 THEN 2
    ELSE IF b >= 224 /\ b <= 239 THEN 3
    ELSE IF b >= 240 /\ b <= 244 THEN 4
    ELSE 0

\* The sequence that starts at byte i of bs is complete and well formed.
ValidAt(bs, i) ==
    LET n == SeqLen(bs[i]) IN
    /\ n > 0
    /\ Len(bs) >= i + n - 1
    /\ \A k \in 1..(n - 1) : IsCont(bs[i + k])
    /\ (bs[i] = 224 => bs[i + 1] >= 160)
    /\ (bs[i] = 237 => bs[i + 1] <= 159)
    /\ (bs[i] = 240 => bs[i + 1] >= 144)
    /\ (bs[i] = 244 => bs[i + 1] <= 143)

\* The code point of the sequence that starts at byte i of bs.
CpAt(bs, i) ==
    LET n == SeqLen(bs[i]) IN
    IF n = 1 THEN bs[i]
    ELSE IF n = 2 THEN (bs[i] - 192) * 64 + (bs[i + 1] - 128)
    ELSE IF n = 3 THEN (bs[i] - 224) * 4096 + (bs[i + 1] - 128) * 64 + (bs[i + 2] - 128)
    ELSE (bs[i] - 240) * 262144 + (bs[i + 1] - 128) * 4096
         + (bs[i + 2] - 128) * 64 + (bs[i + 3] - 128)

\* bytes.decode('utf-8') does not raise UnicodeDecodeError: the bytes are a
\* chain of well-formed sequences, each starting where the previous one ends.
Decodable(bs) ==
    {} = { i \in 1..Len(bs) :
             \/ (i = 1 /\ IsCont(bs[1]))
             \/ /\ ~IsCont(bs[i])
                /\ ~( /\ ValidAt(bs, i)
                      /\ (i + SeqLen(bs[i]) <= Len(bs) => ~IsCont(bs[i + SeqLen(bs[i])])) ) }

\* bytes.decode('utf-8'), for bytes that decode
Decode(bs) ==
    Flatten([i \in 1..Len(bs) |-> IF IsCont(bs[i]) THEN <<>> ELSE <<Chr(CpAt(bs, i))>>])

Quote == "'"
DQuote == "\""
Backslash == "\\"

\* The two lengths a varchar column is normalised to, and the threshold.
VarcharShort == 100
VarcharLong == 191

-----------------------------------------------------------------------------
(* The regular expressions of refine.py.  Every pattern used there is a     *)
(* chain of pieces, each a literal, an optional character or a greedy run   *)
(* of a character class that is ended by a character outside the class, so *)
(* a match is found without backtracking.  A piece is written <<kind, arg>>: *)
(*   <<"lit", text>>   the literal text                                     *)
(*   <<"ilit", text>>  the literal text under re.IGNORECASE                 *)
(*   <<"opt", cs>>     [cs]?                                                *)
(*   <<"run", cs>>     [cs]*                                                *)
(*   <<"run1", cs>>    [cs]+                                                *)
(* Where a value is used several times it is bound as the parameter of a    *)
(* local operator, which is then applied once.                              *)

\* The position after the longest run of characters of the class cs that starts
\* at position i of s (i itself when there is none): X* at i.
RunEnd(s, i, cs) ==
    LET stops == {j \in i..Len(s) : s[j] \notin cs}
    IN IF stops = {} THEN Len(s) + 1
       ELSE CHOOSE j \in stops : \A k \in stops : j <= k

\* The literal lit occurs at position i of s, ignoring case: re.IGNORECASE
MatchAtI(s, i, lit) ==
    i >= 1 /\ i + Len(lit) - 1 <= Len(s) /\ Lower(SubSeq(s, i, i + Len(lit) - 1)) = lit

\* The smallest element of a non-empty set of positions
Least(S) == CHOOSE j \in S : \A k \in S : j <= k

\* The position after one piece matched at position i of s, 0 when the piece
\* does not match there
PieceEnd(s, i, piece) ==
    CASE piece[1] = "lit" -> IF MatchAt(s, i, piece[2]) THEN i + Len(piece[2]) ELSE 0
      [] piece[1] = "ilit" -> IF MatchAtI(s, i, piece[2]) THEN i + Len(piece[2]) ELSE 0
      [] piece[1] = "opt" -> IF i <= Len(s) /\ s[i] \in piece[2] THEN i + 1 ELSE i
      [] piece[1] = "run" -> RunEnd(s, i, piece[2])
      [] piece[1] = "run1" -> IF i <= Len(s) /\ s[i] \in piece[2]
                              THEN RunEnd(s, i, piece[2]) ELSE 0

RECURSIVE Scan(_, _, _)
\* re.match of a pattern at position i of s: the positions after each of its
\* pieces, 0 from the first piece that does not match on
Scan(s, i, pattern) ==
    LET rest(j) == <<j>> \o Scan(s, j, Tail(pattern))
    IN IF Len(pattern) = 0 THEN <<>>
       ELSE rest(IF i = 0 THEN 0 ELSE PieceEnd(s, i, Head(pattern)))

\* re.search of a pattern in s from position i on: the start of the first
\* match followed by the positions after each piece, or None
Search(s, i, pattern) ==
    LET first(hits) == IF hits = {} THEN None
                       ELSE Some(<<Least(hits)>> \o Scan(s, Least(hits), pattern))
    IN first({k \in i..Len(s) : Scan(s, k, pattern)[Len(pattern)] # 0})

RECURSIVE Sub(_, _, _, _, _)
\* re.sub of a pattern in s from position i on, where the replacement is the
\* first keep pieces of the match followed by repl
Sub(s, i, pattern, keep, repl) ==
    LET replaced(m) ==
            IF IsNone(m) THEN From(s, i)
            ELSE SubSeq(s, i, Get(m)[keep + 1] - 1) \o repl
                 \o Sub(s, Get(m)[Len(pattern) + 1], pattern, keep, repl)
    IN replaced(Search(s, i, pattern))

RECURSIVE ParseInt(_)
\* int(digits)
ParseInt(ds) ==
    IF ds = <<>> THEN 0
    ELSE 10 * ParseInt(SubSeq(ds, 1, Len(ds) - 1)) + (IndexIn(ds[Len(ds)], Digits) - 1)

-----------------------------------------------------------------------------
(* adjust_varchar_and_key_length *)

\* str(new_length)
IntText(n) == IF n = VarcharShort THEN Chars("100") ELSE Chars("191")

\* adjust_varchar_and_key_length(line): the pair (line, varchar_length)
adjust_varchar_and_key_length(line) ==
    LET \* line 39: (`\w+`)\(\d+\) becomes \1(191)
        keyed(line1, varchar_length) ==
            [line |-> Sub(line1, 1,
                          << <<"lit", <<BT>>>>, <<"run1", WordChars>>, <<"lit", <<BT>>>>,
                             <<"lit", <<"(">>>>, <<"run1", DigitChars>>, <<"lit", <<")">>>> >>,
                          3, Chars("(191)")),
             varchar_length |-> varchar_length]
        \* line 38: varchar\(\d+\) becomes VARCHAR(new_length)
        resized(new_length) ==
            keyed(Sub(line, 1,
                      << <<"ilit", Chars("varchar(")>>, <<"run1", DigitChars>>,
                         <<"lit", <<")">>>> >>,
                      0, Chars("VARCHAR(") \o IntText(new_length) \o <<")">>),
                  Some(new_length))
        \* lines 34-37
        matched(match) ==
            IF IsNone(match) THEN keyed(line, None)
            ELSE resized(IF ParseInt(SubSeq(line, Get(match)[6], Get(match)[7] - 1))
                            <= VarcharShort
                         THEN VarcharShort ELSE VarcharLong)
    \* line 33: `(\w+)`\s+varchar\((\d+)\)
    IN matched(Search(line, 1,
                      << <<"lit", <<BT>>>>, <<"run1", WordChars>>, <<"lit", <<BT>>>>,
                         <<"run1", Whitespace>>, <<"ilit", Chars("varchar(")>>,
                         <<"run1", DigitChars>>, <<"lit", <<")">>>> >>))

-----------------------------------------------------------------------------
(* parse_enum_values and parse_column_definition *)

\* parse_enum_values(dtype)
parse_enum_values(dtype) ==
    LET closers == {i \in 6..Len(dtype) : dtype[i] = ")"}
        last == CHOOSE i \in closers : \A k \in closers : k <= i
    IN IF ~MatchAtI(dtype, 1, Chars("enum(")) \/ closers = {}
       THEN None
       ELSE LET items == SplitOn(SubSeq(dtype, 6, last - 1), ",")
            IN Some([i \in 1..Len(items) |->
                      LET a == Strip(items[i])
                          b == RStripSet(LStripSet(a, {Quote}), {Quote})
                      IN RStripSet(LStripSet(b, {DQuote}), {DQuote})])

\* The words that make parse_column_definition skip a line
SkipWords == {Chars("primary"), Chars("unique"), Chars("key"), Chars("constraint"),
              Chars("index"), Chars(")")}

\* `?(\w+)`?\s+([a-z]+(\([^)]+\))?) matched at the start of col_def:
\* the name and the type, or None
column_match(col_def) ==
    LET grouped(head, args) ==
            IF head[5] = 0 THEN None
            ELSE Some([name |-> SubSeq(col_def, head[1], head[2] - 1),
                       type |-> SubSeq(col_def, head[4],
                                       (IF args[3] # 0 THEN args[3] ELSE head[5]) - 1)])
        headed(head) ==
            grouped(head, Scan(col_def, head[5],
                               << <<"lit", <<"(">>>>, <<"run1", AllChars \ {")"}>>,
                                  <<"lit", <<")">>>> >>))
    IN headed(Scan(col_def, 1,
                   << <<"opt", {BT}>>, <<"run1", WordChars>>, <<"opt", {BT}>>,
                      <<"run1", Whitespace>>, <<"run1", Range(LowerLetters)>> >>))

\* re.search of default\s+(('[^']*?')|("[^"]*?")|[^,\s]+) in col_def:
\* group 1 of the first match, or None
default_search(col_def) ==
    LET prefix == << <<"ilit", Chars("default")>>, <<"run1", Whitespace>> >>
        quoted(q) == << <<"lit", <<q>>>>, <<"run", AllChars \ {q}>>, <<"lit", <<q>>>> >>
        alternatives ==
            << prefix \o quoted(Quote), prefix \o quoted(DQuote),
               prefix \o << <<"run1", AllChars \ ({","} \cup Whitespace)>> >> >>
        \* the leftmost match, and there the first alternative that matches
        chosen(found) ==
            LET matching == {k \in 1..3 : ~IsNone(found[k])}
                leftmost == Least({Get(found[k])[1] : k \in matching})
                m == Get(found[Least({k \in matching : Get(found[k])[1] = leftmost})])
            IN IF matching = {} THEN None
               ELSE Some(SubSeq(col_def, m[3], m[Len(m)] - 1))
    IN chosen([k \in 1..3 |-> Search(col_def, 1, alternatives[k])])

\* parse_column_definition(line, varchar_length): the dict, with index None, or None
parse_column_definition(line, varchar_length) ==
    LET parsed(col_def, match) ==
            IF col_def = <<>> \/ (\E w \in SkipWords : StartsWith(col_def, w))
               \/ IsNone(match)
            THEN None
            ELSE Some([name |-> Get(match).name,
                       type |-> Get(match).type,
                       nullable |-> ~Contains(col_def, Chars("not null")),
                       default |-> default_search(col_def),
                       index |-> None,
                       varchar_length |-> varchar_length,
                       enum_values |-> parse_enum_values(Get(match).type)])
        lowered(col_def) == parsed(col_def, column_match(col_def))
    IN lowered(Lower(RStripSet(Strip(line), {","})))

-----------------------------------------------------------------------------
(* Column descriptors: the dict built by parse_column_definition.          *)
(* Fields: name, type, nullable, default, index, varchar_length,           *)
(* enum_values; default, varchar_length and enum_values are optional.      *)

\* get_fallback(dtype, enum_values)
get_fallback(dtype0, enum_values) ==
    LET dtype == Lower(dtype0) IN
    IF ~IsNone(enum_values) /\ Get(enum_values) # <<>>
        THEN <<Quote>> \o Get(enum_values)[1] \o <<Quote>>
    ELSE IF StartsWith(dtype, Chars("int")) THEN Chars("'0'")
    ELSE IF Contains(dtype, Chars("float")) \/ Contains(dtype, Chars("double"))
            \/ Contains(dtype, Chars("decimal")) THEN Chars("'0.0'")
    ELSE IF StartsWith(dtype, Chars("date")) THEN Chars("'1970-01-01'")
    ELSE IF StartsWith(dtype, Chars("datetime")) \/ StartsWith(dtype, Chars("timestamp"))
        THEN Chars("'1970-01-01 00:00:00'")
    ELSE Chars("''")

\* sanitize_value(inner): the characters [\x00-\x08\x0b\x0c\x0e-\x1f] are removed
sanitize_value(inner) ==
    SelectSeq(inner, LAMBDA c : Ord(c) \notin (0..8) \cup {11, 12} \cup (14..31))

\* is_quoted of truncate_value
is_quoted(value) ==
    \/ (StartsWith(value, <<Quote>>) /\ EndsWith(value, <<Quote>>))
    \/ (StartsWith(value, <<DQuote>>) /\ EndsWith(value, <<DQuote>>))

\* value[1:-1]
Interior(value) == SubSeq(value, 2, Len(value) - 1)

\* Lines 239-240: the enum check
enum_checked(inner, enum_values) ==
    IF ~IsNone(enum_values) /\ Get(enum_values) # <<>>
       /\ inner \notin Range(Get(enum_values))
    THEN Get(enum_values)[1] ELSE inner

\* inner_bytes[:max_len] cut one byte too late
sliced_OffByOne(inner_bytes, max_len) == SubSeq(inner_bytes, 1, max_len + 1)

\* inner_bytes[:max_len]
sliced(inner_bytes, max_len) == SubSeq(inner_bytes, 1, max_len)

\* if max_len: ... len(inner_bytes) > max_len
needs_truncation(inner, max_len) ==
    ~IsNone(max_len) /\ Get(max_len) # 0 /\ Len(Encode(inner)) > Get(max_len)

RECURSIVE trim_to_valid(_)
\* The while True loop: decode, and on UnicodeDecodeError drop the last byte
trim_to_valid(bytes) ==
    IF Decodable(bytes) THEN Decode(bytes)
    ELSE trim_to_valid(SubSeq(bytes, 1, Len(bytes) - 1))

\* Lines 241-250
truncated(inner, max_len) ==
    IF needs_truncation(inner, max_len)
    THEN trim_to_valid(sliced(Encode(inner), Get(max_len)))
    ELSE inner

\* Only the backslashes are doubled
requoted_BackslashOnly(inner) ==
    <<Quote>> \o Replace(inner, Backslash, <<Backslash, Backslash>>) \o <<Quote>>

\* inner.replace("\\", "\\\\").replace("'", "''"), wrapped in single quotes
requoted(inner) ==
    <<Quote>> \o Replace(Replace(inner, Backslash, <<Backslash, Backslash>>),
                         Quote, <<Quote, Quote>>) \o <<Quote>>

\* truncate_value(value, col)
truncate_value(value, col) ==
    IF is_quoted(value)
    THEN requoted(truncated(enum_checked(sanitize_value(Interior(value)), col.enum_values),
                            col.varchar_length))
    ELSE value

-----------------------------------------------------------------------------
(* fix_row *)

\* One iteration of "for char in row"
tok_step(st, char) ==
    IF st.escape
        THEN [st EXCEPT !.current = st.current \o <<Backslash, char>>, !.escape = FALSE]
    ELSE IF char = Backslash
        THEN [st EXCEPT !.escape = TRUE]
    ELSE IF char \in {Quote, DQuote}
        THEN IF ~st.in_quotes
                THEN [st EXCEPT !.current = Append(st.current, char),
                                !.in_quotes = TRUE, !.quote_char = char]
             ELSE IF char = st.quote_char
                THEN [st EXCEPT !.current = Append(st.current, char), !.in_quotes = FALSE]
             ELSE [st EXCEPT !.current = Append(st.current, char)]
    ELSE IF char = "," /\ ~st.in_quotes
        THEN [st EXCEPT !.parts = Append(st.parts, Strip(st.current)), !.current = <<>>]
    ELSE [st EXCEPT !.current = Append(st.current, char)]

RECURSIVE tok_run(_, _, _, _)
\* The iterations for row[i..j], in order.  The range is halved, and the test
\* on the first half makes TLC finish it before starting the second, which
\* keeps the evaluation shallow.
tok_run(st, row, i, j) ==
    IF i > j THEN st
    ELSE IF i = j THEN tok_step(st, row[i])
    ELSE LET m == (i + j) \div 2
             left == tok_run(st, row, i, m)
         IN IF DOMAIN left = {} THEN left ELSE tok_run(left, row, m + 1, j)

\* Lines 264-281: the token list of a row interior
tokenize(row) ==
    LET ended(st) == Append(st.parts, Strip(st.current))
    IN ended(tok_run([parts |-> <<>>, current |-> <<>>, in_quotes |-> FALSE,
                      escape |-> FALSE, quote_char |-> ""],
                     row, 1, Len(row)))

\* The column loop with the default tried before NULL
fix_column_DefaultFirst(parts, col) ==
    LET idx == col.index IN
    IF idx >= Len(parts) THEN parts
    ELSE LET val == parts[idx + 1] IN
         IF val \in {<<Quote, Quote>>, <<DQuote, DQuote>>}
         THEN IF ~IsNone(col.default) THEN [parts EXCEPT ![idx + 1] = Get(col.default)]
              ELSE IF col.nullable THEN [parts EXCEPT ![idx + 1] = Chars("NULL")]
              ELSE [parts EXCEPT ![idx + 1] = get_fallback(col.type, col.enum_values)]
         ELSE [parts EXCEPT ![idx + 1] = truncate_value(val, col)]

\* Lines 283-291: one iteration of "for col in column_info"
fix_column(parts, col) ==
    LET idx == col.index IN
    IF idx >= Len(parts) THEN parts
    ELSE LET val == parts[idx + 1] IN
         IF val \in {<<Quote, Quote>>, <<DQuote, DQuote>>}
         THEN IF col.nullable THEN [parts EXCEPT ![idx + 1] = Chars("NULL")]
              ELSE IF ~IsNone(col.default) THEN [parts EXCEPT ![idx + 1] = Get(col.default)]
              ELSE [parts EXCEPT ![idx + 1] = get_fallback(col.type, col.enum_values)]
         ELSE [parts EXCEPT ![idx + 1] = truncate_value(val, col)]

RECURSIVE fix_columns(_, _)
\* Lines 282-291: the loop over column_info
fix_columns(parts, column_info) ==
    IF column_info = <<>> THEN parts
    ELSE fix_columns(fix_column(parts, Head(column_info)), Tail(column_info))

\* Lines 259-263: the row without separator and outer parentheses
row_interior(row_line) ==
    LET row == Strip(row_line)
        ends_with_comma == EndsWith(row, <<",">>) \/ EndsWith(row, <<",", "\n">>)
        ends_with_semicolon == EndsWith(row, <<")", ";">>)
        cut == IF ends_with_comma THEN SubSeq(row, 1, Len(row) - 1)
               ELSE IF ends_with_semicolon THEN SubSeq(row, 1, Len(row) - 2)
               ELSE row
    IN RStripSet(LStripSet(Strip(cut), {"("}), {")"})

\* Lines 292-296: the tokens are joined and the separator is put back
joined(row_line, parts) ==
    LET row == Strip(row_line)
        ends_with_comma == EndsWith(row, <<",">>) \/ EndsWith(row, <<",", "\n">>)
        ends_with_semicolon == EndsWith(row, <<")", ";">>)
    IN <<"(">> \o JoinWith(parts, <<",", " ">>)
       \o (IF ends_with_comma THEN <<")", ",">>
           ELSE IF ends_with_semicolon THEN <<")", ";">>
           ELSE <<")">>)
       \o <<"\n">>

\* fix_row(row_line, column_info)
fix_row(row_line, column_info) ==
    IF ~StartsWith(Strip(row_line), <<"(">>) THEN row_line
    ELSE joined(row_line, fix_columns(tokenize(row_interior(row_line)), column_info))

-----------------------------------------------------------------------------
(* refine_sql: files and lines *)

\* The lines of a text as "for line in f" yields them, each with its newline
Lines(text) ==
    LET ends == SelectSeq([i \in 1..Len(text) |-> i],
                          LAMBDA i : text[i] = "\n" \/ i = Len(text))
    IN [k \in 1..Len(ends) |-> SubSeq(text, IF k = 1 THEN 1 ELSE ends[k - 1] + 1, ends[k])]

\* f.write(text) on an open file
Written(file, text) == Some(Get(file) \o text)

\* open(extra_path, 'w') in step 2: the blocks of step 1 are lost
appended_Truncating(file, text) == Some(text)

\* open(extra_path, 'a') and the writes that follow; a missing file is created
appended(file, text) == IF IsNone(file) THEN Some(text) ELSE Some(Get(file) \o text)

\* re.search of create\s+table\s+[`"]?(\w+)[`"]? in the stripped line:
\* group 1, or None
table_match(stripped) ==
    LET group(m) == IF IsNone(m) THEN None
                    ELSE Some(SubSeq(stripped, Get(m)[6], Get(m)[7] - 1))
    IN group(Search(stripped, 1,
                    << <<"ilit", Chars("create")>>, <<"run1", Whitespace>>,
                       <<"ilit", Chars("table")>>, <<"run1", Whitespace>>,
                       <<"opt", {BT, DQuote}>>, <<"run1", WordChars>>,
                       <<"opt", {BT, DQuote}>> >>))

\* The prefixes, and SET statements with them
ExtraPrefixes_WithSet == {Chars("create algorithm"), Chars("create view"),
                          Chars("create trigger"), Chars("create procedure"),
                          Chars("create function"), Chars("set ")}

\* The prefixes that open a verbatim block
ExtraPrefixes == {Chars("create algorithm"), Chars("create view"), Chars("create trigger"),
                  Chars("create procedure"), Chars("create function")}

starts_create_table(line) == StartsWith(Lower(Strip(line)), Chars("create table"))

starts_extra_block(line) == \E pre \in ExtraPrefixes : StartsWith(Lower(Strip(line)), pre)

ends_statement(line) == EndsWith(Strip(line), <<";">>)

\* Lines 136-143: a line of a CREATE TABLE block is normalised and, if it
\* parses as a column, appended to the table's list with the next index
scan_column(columns, index, line) ==
    LET scanned(adjusted, col_meta) ==
            IF IsNone(col_meta)
            THEN [line |-> adjusted.line, added |-> FALSE, columns |-> columns,
                  column_index |-> index]
            ELSE [line |-> adjusted.line, added |-> TRUE,
                  columns |-> Append(columns, [Get(col_meta) EXCEPT !.index = index]),
                  column_index |-> index + 1]
        parsed(adjusted) ==
            scanned(adjusted,
                    parse_column_definition(adjusted.line, adjusted.varchar_length))
    IN parsed(adjust_varchar_and_key_length(line))

RECURSIVE scan_columns(_, _, _)
\* The column list of a table whose block has the given lines
scan_columns(columns, index, lines) ==
    LET rest(r) == scan_columns(r.columns, r.column_index, Tail(lines))
    IN IF lines = <<>> THEN columns ELSE rest(scan_column(columns, index, Head(lines)))

-----------------------------------------------------------------------------
(* Step 2: write_insert_statements *)

\* re.match of insert\s+into\s+[`"]?(\w+)[`"]? at the start of text:
\* group 1, or None
insert_match(text) ==
    LET group(m) == IF m[7] = 0 THEN None ELSE Some(SubSeq(text, m[5], m[6] - 1))
    IN group(Scan(text, 1,
                  << <<"ilit", Chars("insert")>>, <<"run1", Whitespace>>,
                     <<"ilit", Chars("into")>>, <<"run1", Whitespace>>,
                     <<"opt", {BT, DQuote}>>, <<"run1", WordChars>>,
                     <<"opt", {BT, DQuote}>> >>))

\* is_insert_at(pos)
is_insert_at(s, pos) == MatchAtI(s, pos, Chars("insert into"))

\* "-- " + stmt: only the first line is commented out
commented_stmt_FirstLineOnly(stmt) == Chars("-- ") \o stmt

\* "-- " + stmt.replace("\n", "\n-- ")
commented_stmt(stmt) == Chars("-- ") \o Replace(stmt, "\n", <<"\n">> \o Chars("-- "))

\* Lines 193-203: the statement goes to the side-channel
is_diverted(stmt) ==
    LET m == insert_match(Strip(stmt))
    IN IsNone(m) \/ StartsWith(Lower(Get(m)), Chars("v_"))

\* The quote flags when a backslash escapes nothing
part_flags_NoEscape(st, ch) ==
    IF ch = Quote /\ ~st.in_double THEN [st EXCEPT !.in_single = ~st.in_single]
    ELSE IF ch = DQuote /\ ~st.in_single THEN [st EXCEPT !.in_double = ~st.in_double]
    ELSE st

\* Lines 182-190: the quote flags after the character ch
part_flags(st, ch) ==
    IF st.escape THEN [st EXCEPT !.escape = FALSE]
    ELSE IF ch = Backslash /\ (st.in_single \/ st.in_double) THEN [st EXCEPT !.escape = TRUE]
    ELSE IF ch = Quote /\ ~st.in_double THEN [st EXCEPT !.in_single = ~st.in_single]
    ELSE IF ch = DQuote /\ ~st.in_single THEN [st EXCEPT !.in_double = ~st.in_double]
    ELSE st

\* Lines 192-204: the statement that ends at st.i is written out
part_emit(s, st) ==
    LET stmt == SubSeq(s, Get(st.start), st.i) IN
    IF is_diverted(stmt)
    THEN [st EXCEPT !.extra = st.extra \o commented_stmt(stmt) \o <<"\n">>,
                    !.found = Append(st.found, <<Get(st.start), st.i>>), !.start = None]
    ELSE [st EXCEPT !.out = st.out \o Strip(stmt) \o <<"\n">>,
                    !.found = Append(st.found, <<Get(st.start), st.i>>), !.start = None]

\* Every ";" ends the open statement, also one inside a quoted literal
part_iter_AnySemicolon(s, st) ==
    IF st.i > Len(s) THEN st
    ELSE IF IsNone(st.start)
        THEN IF is_insert_at(s, st.i)
             THEN [st EXCEPT !.start = Some(st.i), !.i = st.i + 11]
             ELSE [st EXCEPT !.i = st.i + 1]
    ELSE LET ch == s[st.i]
             st1 == part_flags(st, ch)
             st2 == IF ch = ";" THEN part_emit(s, st1) ELSE st1
         IN [st2 EXCEPT !.i = st.i + 1]

\* Lines 173-205: one iteration of "while i < n"
part_iter(s, st) ==
    IF st.i > Len(s) THEN st
    ELSE IF IsNone(st.start)
        THEN IF is_insert_at(s, st.i)
             THEN [st EXCEPT !.start = Some(st.i), !.i = st.i + 11]
             ELSE [st EXCEPT !.i = st.i + 1]
    ELSE LET ch == s[st.i]
             st1 == part_flags(st, ch)
             st2 == IF ch = ";" /\ ~st1.in_single /\ ~st1.in_double
                    THEN part_emit(s, st1) ELSE st1
         IN [st2 EXCEPT !.i = st.i + 1]

RECURSIVE part_run(_, _, _)
\* k iterations of the loop.  The count is halved, and the test on the first
\* half makes TLC finish it before starting the second.
part_run(s, st, k) ==
    IF k = 0 THEN st
    ELSE IF k = 1 THEN part_iter(s, st)
    ELSE LET left == part_run(s, st, k \div 2)
         IN IF DOMAIN left = {} THEN left ELSE part_run(s, left, k - (k \div 2))

\* The loop run to its end: at most len(s) iterations.
\* The locals of write_insert_statements; positions count from 1, out and
\* extra are what has been written to dst_path and appended to extra_path,
\* found lists the slices s[start:i+1] cut out so far as <<first, last>>
write_insert_statements(s) ==
    part_run(s, [i |-> 1, in_single |-> FALSE, in_double |-> FALSE, escape |-> FALSE,
                 start |-> None, out |-> <<>>, extra |-> <<>>, found |-> <<>>],
             Len(s))

-----------------------------------------------------------------------------
(* Step 3: the header pattern *)

\* re.match of insert into [`"]?(\w+)[`"]?\s+values at the start of stripped:
\* group 1, or None
header_match(stripped) ==
    LET group(m) == IF m[6] = 0 THEN None ELSE Some(SubSeq(stripped, m[2], m[3] - 1))
    IN group(Scan(stripped, 1,
                  << <<"ilit", Chars("insert into ")>>, <<"opt", {BT, DQuote}>>,
                     <<"run1", WordChars>>, <<"opt", {BT, DQuote}>>,
                     <<"run1", Whitespace>>, <<"ilit", Chars("values")>> >>))

\* Lines 304-306, 315-317 and 321-322: the buffered row is repaired and written
flushed(file, buffer, columns) == Written(file, fix_row(Flatten(buffer), columns))

-----------------------------------------------------------------------------
(* refine_sql, step by step *)

\* Largest number of fragments an input dump is made of
MaxFragments == 2

\* The pieces input dumps are made of (^ is the backtick)
Fragments ==
    { \* a table with an int, a varchar and an enum column
      Src("CREATE TABLE ^t^ (\n  ^id^ int NOT NULL,\n  ^nm^ varchar(250) NOT NULL,\n  ^st^ enum('a','B') NOT NULL,\n  PRIMARY KEY (^id^)\n);\n"),
      \* a view
      Src("CREATE VIEW ^v1^ AS\nSELECT id FROM t;\n"),
      \* a view whose block never ends in ";"
      Src("CREATE VIEW ^v2^ AS\nSELECT 1\n"),
      \* a line outside every block and statement
      Src("SET FOREIGN_KEY_CHECKS=0;\n"),
      \* rows below the header, one per line
      Src("INSERT INTO ^t^ VALUES\n(1,'','z'),\n(2,'x','a');\n"),
      \* a row on the header line
      Src("INSERT INTO ^t^ VALUES (3,'y','q');\n"),
      \* two rows on one line
      Src("INSERT INTO ^t^ VALUES\n(4,'p','a'),(5,'','z');\n"),
      \* VALUES below the header
      Src("INSERT INTO ^t^\nVALUES (6,'','z');\n"),
      \* a target that starts with v_
      Src("INSERT INTO ^v_s^ VALUES\n(1,2);\n"),
      \* no target
      Src("INSERT INTO (1);\n"),
      \* a table without metadata
      Src("INSERT INTO ^u^ VALUES\n(7,'',NOW());\n"),
      \* the same, lower case, unquoted, with blanks and a ";" in a literal
      Src("insert into u values\n( 8 , 'k;' ),\n(9,\"\");\n"),
      \* the columns named in the header
      Src("INSERT INTO ^t^ (^id^, ^nm^, ^st^) VALUES\n(10,'','z');\n") }

\* Table t of the worked example as a dump states it on one line, and as it
\* states it with one column per line, each followed by the example's row
ScenarioA ==
    { Chars("CREATE TABLE t (id int, name varchar(250) not null, status enum('a','b') not null);\nINSERT INTO t VALUES\n(1,'','z');\n"),
      Chars("CREATE TABLE t (\n  id int,\n  name varchar(250) not null,\n  status enum('a','b') not null\n);\nINSERT INTO t VALUES\n(1,'','z');\n") }

\* Dumps whose statements are laid out or quoted in ways the fragments are not
OddDumps ==
    { \* a row spread over lines, the ";" on a line of its own
      Src("INSERT INTO ^u^ VALUES\n(1,\n2)\n;\n"),
      \* the same, followed by another statement
      Src("INSERT INTO ^u^ VALUES\n(1,\n2)\n;\nINSERT INTO ^u^ VALUES\n(7,8);\n"),
      \* a ";" in a double-quoted literal, and one after an escaped quote
      Src("INSERT INTO ^u^ VALUES\n(1,\"a;b\",'c\\';d');\n"),
      \* "insert into" and ";" inside a literal of an open statement
      Src("INSERT INTO ^u^ VALUES\n('insert into x;'),\n(2);\n"),
      \* a literal that runs over two lines, the first of them ending in "),"
      Src("INSERT INTO ^u^ VALUES\n(1,'a),\nb');\n") }

\* The input dumps: up to MaxFragments fragments in any order, the worked
\* example and the odd dumps
Inputs == {Flatten(fs) : fs \in SeqsUpTo(Fragments, MaxFragments)} \cup ScenarioA \cup OddDumps

\* The line the loop of step 1 reads next
NextLine == Lines(input_file)[fin + 1]

\* truncate_value is not running
TIdle ==
    /\ t_pc = "idle"
    /\ t_value = <<>>
    /\ t_col = <<>>
    /\ t_inner = <<>>
    /\ truncated_bytes = <<>>
    /\ t_trims = 0
    /\ t_result = None

\* The state when refine_sql is called with the dump input
PStart(input) ==
    /\ pc = "start"
    /\ input_file = input
    /\ input_path \in IF input \in ScenarioA THEN {"in.sql", "results/in.sql"} ELSE {"in.sql"}
    /\ fin = 0
    /\ column_metadata_map = <<>>
    /\ inside_create = FALSE
    /\ create_block = <<>>
    /\ current_table = None
    /\ column_index = 0
    /\ create_file = None
    /\ extra_file = None
    /\ json_index_file = None
    /\ insert_temp_file = None
    /\ refined_file = None
    /\ final_output_file = None
    /\ statements = <<>>
    /\ table_metadata = <<>>
    /\ infile = 0
    /\ current_columns = <<>>
    /\ row_buffer = <<>>
    /\ accumulating_row = FALSE
    /\ meta_lines = {}

\* Lines 85-96 and 328: the file at the path of the input. The final output is
\* results/<stem of the input>.sql, opened for writing in step 4; for an input
\* of that path it is the same file
InputOnDisk ==
    IF input_path = "results/in.sql" /\ ~IsNone(final_output_file)
    THEN Get(final_output_file) ELSE input_file

\* fix_row is not running
RIdle ==
    /\ r_pc = "idle"
    /\ r_column_lines = <<>>
    /\ r_row_line = <<>>
    /\ r_column_info = <<>>
    /\ r_parts = <<>>
    /\ r_tokens = <<>>
    /\ r_col_pos = 0
    /\ r_fixed_row = None

\* Lines 13-27 and 201 of app.py: the window before any upload; the temporary
\* folders are removed at startup and no worker exists
AppStart ==
    /\ a_workers = <<>>
    /\ a_worker = 0
    /\ a_chunks = None
    /\ a_results = {}
    /\ a_signals = <<>>
    /\ a_log_area = <<>>
    /\ a_progress = 0
    /\ a_closed = FALSE

\* No call of refine_sql is being watched through its messages
LIdle ==
    /\ l_pc = "idle"
    /\ log_func = None
    /\ l_now = 0
    /\ step_start = 0
    /\ l_delivered = <<>>
    /\ l_printed = <<>>

Init == (\E input \in Inputs : PStart(input)) /\ TIdle /\ RIdle /\ AppStart /\ LIdle

\* Lines 85-110: the locals of step 1 are set and the two files are opened
Begin ==
    /\ pc = "start"
    /\ pc' = "step1"
    /\ create_file' = Some(<<>>)
    /\ extra_file' = Some(<<>>)
    /\ UNCHANGED <<input_file, input_path, current_table, final_output_file, fin, column_metadata_map,
                   inside_create, create_block, column_index, json_index_file, meta_lines, s2vars, s3vars, tvars, rvars, avars, lvars>>

\* Lines 115-123: a line that starts with "create table"
S1CreateTable ==
    /\ pc = "step1"
    /\ fin < Len(Lines(input_file))
    /\ starts_create_table(NextLine)
    /\ LET table_match_ == table_match(Strip(NextLine)) IN
        /\ inside_create' = TRUE
        /\ create_block' = <<NextLine>>
        /\ column_index' = 0
        /\ IF ~IsNone(table_match_)
           THEN /\ current_table' = table_match_
                /\ column_metadata_map' =
                      [name \in DOMAIN column_metadata_map \cup {Get(table_match_)} |->
                          IF name = Get(table_match_) THEN <<>>
                          ELSE column_metadata_map[name]]
                /\ meta_lines' = meta_lines \cup {fin + 1}
           ELSE UNCHANGED <<current_table, column_metadata_map, meta_lines>>
    /\ fin' = fin + 1
    /\ UNCHANGED <<pc, input_file, input_path, extra_file, final_output_file, create_file,
                   json_index_file, s2vars, s3vars, tvars, rvars, avars, lvars>>

\* The first line at or after line k that ends in ";", or 0
BlockEnd(lines, k) ==
    LET ends == {j \in k..Len(lines) : ends_statement(lines[j])}
    IN IF ends = {} THEN 0 ELSE Least(ends)

\* Lines 125-133: a view, trigger, procedure or function block is copied
S1ExtraBlock ==
    /\ pc = "step1"
    /\ fin < Len(Lines(input_file))
    /\ ~starts_create_table(NextLine)
    /\ starts_extra_block(NextLine)
    /\ BlockEnd(Lines(input_file), fin + 1) > 0
    /\ LET last == BlockEnd(Lines(input_file), fin + 1)
           block == SubSeq(Lines(input_file), fin + 1, last)
       IN /\ extra_file' = Written(extra_file, Flatten(block) \o <<"\n">>)
          /\ fin' = last
    /\ UNCHANGED <<pc, input_file, input_path, current_table, final_output_file, column_metadata_map,
                   inside_create, create_block, column_index, create_file, json_index_file,
                   meta_lines, s2vars, s3vars, tvars, rvars, avars, lvars>>

\* StopIteration caught: the open block is written out and step 1 goes on
S1ExtraBlockOpen_Recovered ==
    /\ pc = "step1"
    /\ fin < Len(Lines(input_file))
    /\ ~starts_create_table(NextLine)
    /\ starts_extra_block(NextLine)
    /\ BlockEnd(Lines(input_file), fin + 1) = 0
    /\ fin' = Len(Lines(input_file))
    /\ extra_file' = Written(extra_file, Flatten(SubSeq(Lines(input_file), fin + 1,
                                                        Len(Lines(input_file)))))
    /\ UNCHANGED <<pc, input_file, input_path, current_table, final_output_file,
                   column_metadata_map, inside_create, create_block, column_index,
                   create_file, json_index_file, meta_lines,
                   s2vars, s3vars, tvars, rvars, avars, lvars>>

\* Lines 127-128: the input ends inside the block and next(fin) raises
S1ExtraBlockOpen ==
    /\ pc = "step1"
    /\ fin < Len(Lines(input_file))
    /\ ~starts_create_table(NextLine)
    /\ starts_extra_block(NextLine)
    /\ BlockEnd(Lines(input_file), fin + 1) = 0
    /\ fin' = Len(Lines(input_file))
    /\ pc' = "error"
    /\ UNCHANGED <<input_file, input_path, current_table, extra_file, final_output_file,
                   column_metadata_map, inside_create, create_block, column_index,
                   create_file, json_index_file, meta_lines,
                   s2vars, s3vars, tvars, rvars, avars, lvars>>

\* Lines 135-150: a line inside a CREATE TABLE block
S1InsideCreate ==
    /\ pc = "step1"
    /\ fin < Len(Lines(input_file))
    /\ ~starts_create_table(NextLine)
    /\ ~starts_extra_block(NextLine)
    /\ inside_create
    /\ LET written(scanned, block) ==
               /\ create_block' = block
               /\ IF ~IsNone(current_table) /\ scanned.added
                  THEN /\ column_metadata_map' =
                             [column_metadata_map EXCEPT ![Get(current_table)] = scanned.columns]
                       /\ column_index' = scanned.column_index
                       /\ meta_lines' = meta_lines \cup {fin + 1}
                  ELSE UNCHANGED <<column_metadata_map, column_index, meta_lines>>
               /\ IF ends_statement(NextLine)
                  THEN /\ create_file' = Written(create_file, Flatten(block) \o <<"\n">>)
                       /\ inside_create' = FALSE
                       /\ current_table' = None
                  ELSE UNCHANGED <<create_file, inside_create, current_table>>
           appended_to_block(scanned) == written(scanned, Append(create_block, scanned.line))
       IN appended_to_block(scan_column(IF IsNone(current_table) THEN <<>>
                                        ELSE column_metadata_map[Get(current_table)],
                                        column_index, NextLine))
    /\ fin' = fin + 1
    /\ UNCHANGED <<pc, input_file, input_path, extra_file, final_output_file, json_index_file, s2vars, s3vars, tvars, rvars, avars, lvars>>

\* Lines 112-135: a line outside every block falls through the loop body
S1Discard ==
    /\ pc = "step1"
    /\ fin < Len(Lines(input_file))
    /\ ~starts_create_table(NextLine)
    /\ ~starts_extra_block(NextLine)
    /\ ~inside_create
    /\ fin' = fin + 1
    /\ UNCHANGED <<pc, input_file, input_path, current_table, extra_file, final_output_file,
                   column_metadata_map, inside_create, create_block, column_index,
                   create_file, json_index_file, meta_lines, s2vars, s3vars, tvars, rvars, avars, lvars>>

\* Lines 152-155: the input is read, the metadata map is dumped
S1Finish ==
    /\ pc = "step1"
    /\ fin = Len(Lines(input_file))
    /\ json_index_file' = Some(column_metadata_map)
    /\ pc' = "step2"
    /\ UNCHANGED <<input_file, input_path, current_table, extra_file, final_output_file, fin,
                   column_metadata_map, inside_create, create_block, column_index,
                   create_file, meta_lines, s2vars, s3vars, tvars, rvars, avars, lvars>>

\* Lines 157-208: write_insert_statements(input_file, insert_temp_file, extra_file)
Step2 ==
    /\ pc = "step2"
    /\ LET st == write_insert_statements(input_file) IN
        /\ insert_temp_file' = Some(st.out)
        /\ extra_file' = appended(extra_file, st.extra)
        /\ statements' = st.found
    /\ pc' = "step3"
    /\ UNCHANGED <<input_file, input_path, current_table, final_output_file, s1vars, s3vars, tvars, rvars, avars, lvars>>

\* Lines 211-213 and 298-299: the metadata is loaded and the files are opened
S3Open ==
    /\ pc = "step3"
    /\ IsNone(refined_file)
    /\ table_metadata' = Get(json_index_file)
    /\ refined_file' = Some(<<>>)
    /\ current_table' = None
    /\ current_columns' = <<>>
    /\ row_buffer' = <<>>
    /\ accumulating_row' = FALSE
    /\ infile' = 0
    /\ UNCHANGED <<pc, input_file, input_path, extra_file, final_output_file, s1vars, s2vars, tvars, rvars, avars, lvars>>

\* The line the loop of step 3 reads next
NextInsertLine == Lines(Get(insert_temp_file))[infile + 1]

S3Reading == pc = "step3" /\ ~IsNone(refined_file) /\ infile < Len(Lines(Get(insert_temp_file)))

\* Lines 302-311: a line that starts with "insert into"
S3Header ==
    /\ S3Reading
    /\ StartsWith(Lower(Strip(NextInsertLine)), Chars("insert into"))
    /\ LET match == header_match(Strip(NextInsertLine))
           out1 == IF row_buffer # <<>> THEN flushed(refined_file, row_buffer, current_columns)
                   ELSE refined_file
       IN /\ refined_file' = Written(out1, NextInsertLine)
          /\ IF ~IsNone(match)
             THEN /\ current_table' = match
                  /\ current_columns' = IF Get(match) \in DOMAIN table_metadata
                                            THEN table_metadata[Get(match)] ELSE <<>>
             ELSE UNCHANGED <<current_table, current_columns>>
    /\ row_buffer' = <<>>
    /\ accumulating_row' = IF row_buffer # <<>> THEN FALSE ELSE accumulating_row
    /\ infile' = infile + 1
    /\ UNCHANGED <<pc, input_file, input_path, extra_file, final_output_file, table_metadata,
                   s1vars, s2vars, tvars, rvars, avars, lvars>>

\* Lines 312-317: a line of a row
S3Row ==
    /\ S3Reading
    /\ ~StartsWith(Lower(Strip(NextInsertLine)), Chars("insert into"))
    /\ StartsWith(Strip(NextInsertLine), <<"(">>) \/ accumulating_row
    /\ LET stripped == Strip(NextInsertLine)
           buffer == Append(row_buffer, NextInsertLine)
       IN IF EndsWith(stripped, <<")", ",">>) \/ EndsWith(stripped, <<")", ";">>)
          THEN /\ refined_file' = flushed(refined_file, buffer, current_columns)
               /\ row_buffer' = <<>>
               /\ accumulating_row' = FALSE
          ELSE /\ row_buffer' = buffer
               /\ accumulating_row' = TRUE
               /\ UNCHANGED refined_file
    /\ infile' = infile + 1
    /\ UNCHANGED <<pc, input_file, input_path, current_table, extra_file, final_output_file,
                   table_metadata, current_columns, s1vars, s2vars, tvars, rvars, avars, lvars>>

\* Lines 318-319: any other line is copied
S3Other ==
    /\ S3Reading
    /\ ~StartsWith(Lower(Strip(NextInsertLine)), Chars("insert into"))
    /\ ~StartsWith(Strip(NextInsertLine), <<"(">>)
    /\ ~accumulating_row
    /\ refined_file' = Written(refined_file, NextInsertLine)
    /\ infile' = infile + 1
    /\ UNCHANGED <<pc, input_file, input_path, current_table, extra_file, final_output_file,
                   table_metadata, current_columns, row_buffer, accumulating_row,
                   s1vars, s2vars, tvars, rvars, avars, lvars>>

\* The end of the stream without the flush of lines 320-322
S3Finish_NoFlush ==
    /\ pc = "step3"
    /\ ~IsNone(refined_file)
    /\ infile = Len(Lines(Get(insert_temp_file)))
    /\ pc' = "step4"
    /\ UNCHANGED <<input_file, input_path, current_table, extra_file, final_output_file, refined_file,
                   table_metadata, infile, current_columns, row_buffer, accumulating_row,
                   s1vars, s2vars, tvars, rvars, avars, lvars>>

\* Lines 320-324: the stream has ended, a buffered row is repaired and written
S3Finish ==
    /\ pc = "step3"
    /\ ~IsNone(refined_file)
    /\ infile = Len(Lines(Get(insert_temp_file)))
    /\ refined_file' = IF row_buffer # <<>>
                       THEN flushed(refined_file, row_buffer, current_columns)
                       ELSE refined_file
    /\ pc' = "step4"
    /\ UNCHANGED <<input_file, input_path, current_table, extra_file, final_output_file,
                   table_metadata, infile, current_columns, row_buffer, accumulating_row,
                   s1vars, s2vars, tvars, rvars, avars, lvars>>

\* A fragment without its closing marker
fragment_Unclosed(file, name) ==
    IF IsNone(file) THEN <<>>
    ELSE Chars("-- Start of ") \o name \o <<"\n">> \o Get(file) \o <<"\n", "\n">>

\* Lines 330-334: one fragment of the final file, empty when the file is absent
fragment(file, name) ==
    IF IsNone(file) THEN <<>>
    ELSE Chars("-- Start of ") \o name \o <<"\n">> \o Get(file)
         \o <<"\n">> \o Chars("-- End of ") \o name \o <<"\n", "\n">>

\* Lines 326-336: the three fragments are concatenated; the input file is
\* in.sql, so the files are named in_0.sql, in_temp_refined.sql, in_temp_extra.sql
Step4 ==
    /\ pc = "step4"
    /\ final_output_file' = Some(fragment(create_file, Chars("in_0.sql"))
                                 \o fragment(refined_file, Chars("in_temp_refined.sql"))
                                 \o fragment(extra_file, Chars("in_temp_extra.sql")))
    /\ pc' = "step5"
    /\ UNCHANGED <<input_file, input_path, current_table, extra_file, s1vars, s2vars, s3vars, tvars, rvars, avars, lvars>>

\* Lines 338-344: the working directory is removed and the path returned
Step5 ==
    /\ pc = "step5"
    /\ create_file' = None
    /\ extra_file' = None
    /\ json_index_file' = None
    /\ insert_temp_file' = None
    /\ refined_file' = None
    /\ pc' = "done"
    /\ UNCHANGED <<input_file, input_path, current_table, final_output_file, fin, column_metadata_map,
                   inside_create, create_block, column_index, meta_lines,
                   statements, table_metadata, infile, current_columns, row_buffer,
                   accumulating_row, tvars, rvars, avars, lvars>>

Next ==
    \/ Begin
    \/ S1CreateTable \/ S1ExtraBlock \/ S1ExtraBlockOpen \/ S1InsideCreate \/ S1Discard
    \/ S1Finish
    \/ Step2
    \/ S3Open \/ S3Header \/ S3Row \/ S3Other \/ S3Finish
    \/ Step4
    \/ Step5

Spec == Init /\ [][Next]_vars

-----------------------------------------------------------------------------
(* fix_row run on its own: a column list built by step 1 from the lines of   *)
(* a CREATE TABLE block, and one buffered row                               *)

\* Largest number of tokens in a row built from RowTokens
MaxTokens == 2

\* Largest number of characters in a row built from RowChars
MaxRowLen == 4

\* Column lines of CREATE TABLE blocks (^ is the backtick)
ColumnLines ==
    << Src("  ^id^ int NOT NULL,"),
       Src("  ^n^ bigint NOT NULL,"),
       Src("  ^d^ datetime NOT NULL,"),
       Src("  ^dd^ date NOT NULL,"),
       Src("  ^ts^ timestamp NOT NULL,"),
       Src("  ^f^ decimal(10,2) NOT NULL,"),
       Src("  ^tx^ text NOT NULL,"),
       Src("  ^nm^ varchar(250) NOT NULL,"),
       Src("  ^nn^ varchar(50) DEFAULT NULL,"),
       Src("  ^df^ varchar(20) NOT NULL DEFAULT 'Abc',"),
       Src("  ^st^ enum('A','b') NOT NULL,") >>

\* The blocks: one column line, or two that follow each other in ColumnLines
TableLines ==
    {<<ColumnLines[i]>> : i \in 1..Len(ColumnLines)}
    \cup {<<ColumnLines[i], ColumnLines[i + 1]>> : i \in 1..(Len(ColumnLines) - 1)}
    \cup {<<ColumnLines[Len(ColumnLines)], ColumnLines[1]>>}

\* The blocks with the column lists step 1 builds from them
Tables == {[lines |-> lines, columns |-> scan_columns(<<>>, 0, lines)] : lines \in TableLines}

\* The values rows are made of
RowTokens == {Chars("''"), <<DQuote, DQuote>>, Chars("'A'"), Chars("'b'"), Chars("'z'"),
              Chars("1"), Chars("NOW()"), Chars("'it''s'")}

\* The rows of up to MaxTokens tokens, each closing its statement
TokenRows == {<<"(">> \o JoinWith(toks, <<",">>) \o <<")", ";", "\n">> :
                 toks \in SeqsUpTo(RowTokens, MaxTokens) \ {<<>>}}

\* The characters the tokenizer distinguishes, and one it does not
RowChars == {"a", ",", Quote, DQuote, Backslash}

\* The rows with an interior of up to MaxRowLen characters, each followed by
\* another row
CharRows == {<<"(">> \o body \o <<")", ",", "\n">> : body \in SeqsUpTo(RowChars, MaxRowLen)}

\* fix_row is called for a row of a known table, or for a row of a table
\* without metadata
RInit ==
    /\ \/ \E table \in Tables, row \in TokenRows :
            /\ r_column_lines = table.lines
            /\ r_column_info = table.columns
            /\ r_row_line = row
       \/ \E row \in CharRows :
            /\ r_column_lines = <<>>
            /\ r_column_info = <<>>
            /\ r_row_line = row
    /\ r_pc = "call"
    /\ r_parts = <<>>
    /\ r_tokens = <<>>
    /\ r_col_pos = 0
    /\ r_fixed_row = None
    /\ PStart(<<>>)
    /\ TIdle
    /\ AppStart
    /\ LIdle

\* Lines 256-281: the separator and the parentheses are cut off, the row is
\* split into tokens
FixRowTokenize ==
    /\ r_pc = "call"
    /\ StartsWith(Strip(r_row_line), <<"(">>)
    /\ r_parts' = tokenize(row_interior(r_row_line))
    /\ r_tokens' = r_parts'
    /\ r_pc' = "columns"
    /\ UNCHANGED <<r_column_lines, r_row_line, r_column_info, r_col_pos, r_fixed_row,
                   pvars, tvars, avars, lvars>>

\* Lines 282-291: one iteration of "for col in column_info"
FixRowColumn ==
    /\ r_pc = "columns"
    /\ r_col_pos < Len(r_column_info)
    /\ r_parts' = fix_column(r_parts, r_column_info[r_col_pos + 1])
    /\ r_col_pos' = r_col_pos + 1
    /\ UNCHANGED <<r_pc, r_column_lines, r_row_line, r_column_info, r_tokens, r_fixed_row,
                   pvars, tvars, avars, lvars>>

\* Lines 292-296
FixRowReturn ==
    /\ r_pc = "columns"
    /\ r_col_pos = Len(r_column_info)
    /\ r_fixed_row' = Some(joined(r_row_line, r_parts))
    /\ r_pc' = "done"
    /\ UNCHANGED <<r_column_lines, r_row_line, r_column_info, r_parts, r_tokens, r_col_pos,
                   pvars, tvars, avars, lvars>>

RNext == FixRowTokenize \/ FixRowColumn \/ FixRowReturn

SpecRepair == RInit /\ [][RNext]_vars

\* The steps of fix_row give what fix_row gives
FixRowAgrees ==
    r_pc = "done" => Get(r_fixed_row) = fix_row(r_row_line, r_column_info)

-----------------------------------------------------------------------------
(* Properties of row repair *)

\* '' and ""
EmptyLiterals == {<<Quote, Quote>>, <<DQuote, DQuote>>}

\* The columns whose iteration of the loop is over
DoneColumns == {r_column_info[k] : k \in 1..r_col_pos}

\* What the precedence rule asks for at an empty literal
ByPrecedence(col) ==
    IF col.nullable THEN Chars("NULL")
    ELSE IF ~IsNone(col.default) THEN Get(col.default)
    ELSE get_fallback(col.type, col.enum_values)

\* C2: an empty quoted literal at the position of a known column becomes
\* NULL if the column is nullable, else the column's default literal as it
\* stands in the descriptor, else the fallback of its type; the returned row
\* carries that text between its separators, unquoted and unescaped.
C2_NullDefaultPrecedence ==
    /\ \A col \in DoneColumns :
          (col.index < Len(r_tokens) /\ r_tokens[col.index + 1] \in EmptyLiterals)
          => r_parts[col.index + 1] = ByPrecedence(col)
    /\ r_pc = "done" =>
          Get(r_fixed_row) = <<"(">> \o JoinWith(r_parts, <<",", " ">>)
                             \o SubSeq(r_row_line, Len(r_row_line) - 2, Len(r_row_line))

\* A row whose empty literal was replaced by the default of a NOT NULL column
C2_Witness ==
    /\ r_pc = "done"
    /\ \E col \in DoneColumns :
          /\ ~col.nullable /\ ~IsNone(col.default)
          /\ col.index < Len(r_tokens) /\ r_tokens[col.index + 1] \in EmptyLiterals
          /\ r_parts[col.index + 1] = Get(col.default)
          /\ Get(col.default) # Chars("NULL")

\* The fallback the specification lists for a type
SpecFallback(type, enum_values) ==
    LET dtype == Lower(type)
        starts(word) == StartsWith(dtype, word)
    IN IF ~IsNone(enum_values) /\ Get(enum_values) # <<>>
          THEN <<Quote>> \o Get(enum_values)[1] \o <<Quote>>
       ELSE IF starts(Chars("int")) \/ starts(Chars("tinyint")) \/ starts(Chars("smallint"))
               \/ starts(Chars("mediumint")) \/ starts(Chars("bigint"))
          THEN Chars("'0'")
       ELSE IF starts(Chars("float")) \/ starts(Chars("double")) \/ starts(Chars("decimal"))
          THEN Chars("'0.0'")
       ELSE IF starts(Chars("datetime")) \/ starts(Chars("timestamp"))
          THEN Chars("'1970-01-01 00:00:00'")
       ELSE IF starts(Chars("date")) THEN Chars("'1970-01-01'")
       ELSE Chars("''")

\* C3: an empty literal at a NOT NULL column without default becomes the
\* fallback of the column's type: the first enum value quoted, '0' for the
\* integer family, '0.0' for float, double and decimal, '1970-01-01' for
\* date, '1970-01-01 00:00:00' for datetime and timestamp, '' otherwise.
C3_TypeFallback ==
    \A col \in DoneColumns :
        (/\ ~col.nullable /\ IsNone(col.default)
         /\ col.index < Len(r_tokens) /\ r_tokens[col.index + 1] \in EmptyLiterals)
        => r_parts[col.index + 1] = SpecFallback(col.type, col.enum_values)

\* The enum values a column line declares, as written: the text between
\* "enum(" and the last ")" split on commas, blanks and quotes taken off
DeclaredEnum(line) ==
    LET opens == {i \in 1..Len(line) : MatchAtI(line, i, Chars("enum("))}
        closes == {i \in 1..Len(line) : line[i] = ")"}
    IN IF opens = {} \/ closes = {} THEN <<>>
       ELSE LET first == Least(opens) + 5
                last == CHOOSE i \in closes : \A j \in closes : j <= i
                items == SplitOn(SubSeq(line, first, last - 1), ",")
            IN [k \in 1..Len(items) |->
                   RStripSet(LStripSet(items[k], {Quote, DQuote, " "}), {Quote, DQuote, " "})]

\* C4: at a column declared with enum values E, a quoted non-empty value
\* whose interior is one of E, compared exactly, is left as it is, and any
\* other is replaced by the first value of E.
C4_EnumSubstitution ==
    \A k \in 1..r_col_pos :
        LET E == DeclaredEnum(r_column_lines[k])
            value == r_tokens[k]
        IN (/\ E # <<>> /\ k <= Len(r_tokens)
            /\ Len(value) > 2 /\ value[1] = Quote /\ value[Len(value)] = Quote)
           => r_parts[k] = IF Interior(value) \in Range(E) THEN value
                           ELSE <<Quote>> \o E[1] \o <<Quote>>

\* The quote flags of the statement scanner before each character of a text
quote_init == [in_single |-> FALSE, in_double |-> FALSE, escape |-> FALSE, outside |-> <<>>]

quote_step(st, ch) ==
    [part_flags(st, ch) EXCEPT !.outside = Append(st.outside, ~st.in_single /\ ~st.in_double)]

RECURSIVE quote_run(_, _, _, _)
quote_run(st, text, i, j) ==
    IF i > j THEN st
    ELSE IF i = j THEN quote_step(st, text[i])
    ELSE LET m == (i + j) \div 2
             left == quote_run(st, text, i, m)
         IN IF DOMAIN left = {} THEN left ELSE quote_run(left, text, m + 1, j)

\* The text read by the rules of the statement scanner: for each character
\* whether it lies outside every quoted literal, and the flags at the end
QuoteScan(text) == quote_run(quote_init, text, 1, Len(text))

Balanced(text) == LET st == QuoteScan(text) IN ~st.in_single /\ ~st.in_double

OutsideCommas(text) ==
    LET st == QuoteScan(text) IN {i \in 1..Len(text) : text[i] = "," /\ st.outside[i]}

\* C6: for a row interior with balanced quotes the tokenizer gives one token
\* more than there are commas outside quoted literals.
C6_TokenCount ==
    (r_pc \in {"columns", "done"} /\ Balanced(row_interior(r_row_line)))
    => Len(r_tokens) = Cardinality(OutsideCommas(row_interior(r_row_line))) + 1

\* The tokenizer is inside a quoted literal before character i of a text
TokInside(text, i) ==
    tok_run([parts |-> <<>>, current |-> <<>>, in_quotes |-> FALSE,
             escape |-> FALSE, quote_char |-> ""], text, 1, i - 1).in_quotes

\* C23: the row tokenizer and the statement partitioner, run over the same
\* text, agree for every character on whether it is inside or outside a quoted
\* literal, also after a backslash outside any quote and after a quote of the
\* other kind inside a literal.
C23_SameQuoteRules ==
    r_pc \in {"columns", "done"} =>
        LET agree(text, outside) ==
                \A i \in DOMAIN text : TokInside(text, i) = ~outside[i]
        IN agree(row_interior(r_row_line), QuoteScan(row_interior(r_row_line)).outside)

\* The tokens of a row as SQL reads it: the separator after the row and the
\* one outer pair of parentheses are taken off, the rest is split at the
\* commas outside quoted literals
TokensOf(row_line) ==
    LET unseparated(row) == IF row # <<>> /\ row[Len(row)] \in {",", ";"}
                            THEN SubSeq(row, 1, Len(row) - 1) ELSE row
        unwrapped(row) == IF Len(row) >= 2 /\ row[1] = "(" /\ row[Len(row)] = ")"
                          THEN SubSeq(row, 2, Len(row) - 1) ELSE row
        split(text, commas) ==
            [k \in 1..(Len(commas) + 1) |->
                Strip(SubSeq(text, IF k = 1 THEN 1 ELSE commas[k - 1] + 1,
                                   IF k > Len(commas) THEN Len(text) ELSE commas[k] - 1))]
        tokens(text) == split(text, SelectSeq([i \in 1..Len(text) |-> i],
                                              LAMBDA i : i \in OutsideCommas(text)))
    IN tokens(unwrapped(unseparated(Strip(row_line))))

\* C24: repair takes off only the one outer pair of parentheses; every
\* unquoted non-empty token, and every token beyond the known columns, is in
\* the repaired row character for character at the same position, and the
\* number of tokens does not change.
C24_UnquotedUnchanged ==
    r_pc = "done" =>
        LET kept(before, after) ==
                /\ Len(after) = Len(before)
                /\ \A i \in DOMAIN before :
                      \/ before[i] = <<>>
                      \/ /\ before[i][1] \in {Quote, DQuote}
                         /\ \E col \in Range(r_column_info) : col.index = i - 1
                      \/ (i <= Len(after) /\ after[i] = before[i])
        IN kept(TokensOf(r_row_line), TokensOf(Get(r_fixed_row)))

\* C29: row repair is idempotent: repairing a repaired row with the same column
\* list gives the repaired row again, also for a value that holds an escaped
\* quote or an escaped backslash.
C29_RepairIdempotent ==
    r_pc = "done" => fix_row(Get(r_fixed_row), r_column_info) = Get(r_fixed_row)

-----------------------------------------------------------------------------
(* Properties of a run of refine_sql *)

\* The input line by line
InputLines == Lines(input_file)

\* A line that opens a view, trigger, procedure or function block
OpensBlock(line) ==
    LET text == Lower(Strip(line))
        after == SubSeq(text, 8, Len(text))
    IN /\ StartsWith(text, Chars("create "))
       /\ \/ StartsWith(after, Chars("algorithm")) \/ StartsWith(after, Chars("view"))
          \/ StartsWith(after, Chars("trigger")) \/ StartsWith(after, Chars("procedure"))
          \/ StartsWith(after, Chars("function"))

\* A line that opens a CREATE TABLE block
OpensTable(line) == StartsWith(Lower(Strip(line)), Chars("create table"))

\* A line that ends in ";"
Closes(line) == LET text == Strip(line) IN text # <<>> /\ text[Len(text)] = ";"

RECURSIVE LineClasses(_, _, _)
\* The three-state line scan: for the lines from k on, "table" for a line of
\* a CREATE TABLE block, "block" for a line of a verbatim block, "none" for
\* a line outside both
LineClasses(lines, k, in_table) ==
    IF k > Len(lines) THEN <<>>
    ELSE IF OpensTable(lines[k]) THEN <<"table">> \o LineClasses(lines, k + 1, TRUE)
    ELSE IF OpensBlock(lines[k])
        THEN LET ends == {j \in k..Len(lines) : Closes(lines[j])}
                 last == IF ends = {} THEN Len(lines) ELSE Least(ends)
             IN [j \in 1..(last - k + 1) |-> "block"] \o LineClasses(lines, last + 1, in_table)
    ELSE IF in_table THEN <<"table">> \o LineClasses(lines, k + 1, ~Closes(lines[k]))
    ELSE <<"none">> \o LineClasses(lines, k + 1, FALSE)

RECURSIVE ClosedBlocks(_, _)
\* The verbatim blocks of the input that reach their closing line, as
\* <<first line, last line>>, scanning from line k
ClosedBlocks(lines, k) ==
    IF k > Len(lines) THEN <<>>
    ELSE IF ~OpensTable(lines[k]) /\ OpensBlock(lines[k])
        THEN LET ends == {j \in k..Len(lines) : Closes(lines[j])}
             IN IF ends = {} THEN <<>>
                ELSE <<<<k, Least(ends)>>>> \o ClosedBlocks(lines, Least(ends) + 1)
    ELSE ClosedBlocks(lines, k + 1)

\* What the verbatim blocks put into the side-channel: each block as it is
\* in the input, with an empty line after it
BlockText ==
    LET text(lines, blocks) ==
            Flatten([b \in 1..Len(blocks) |->
                        Flatten(SubSeq(lines, blocks[b][1], blocks[b][2])) \o <<"\n">>])
        of(lines) == text(lines, ClosedBlocks(lines, 1))
    IN of(InputLines)

\* The input lines inside verbatim blocks
BlockLines ==
    LET of(classes) == {k \in 1..Len(classes) : classes[k] = "block"}
    IN of(LineClasses(InputLines, 1, FALSE))

\* The statements the partitioner has cut out, as text
Statements == [k \in 1..Len(statements) |->
                  SubSeq(input_file, statements[k][1], statements[k][2])]

\* The statement names a target that starts with v_, or names none
Diverted(stmt) ==
    LET named(target) == IsNone(target) \/ StartsWith(Lower(Get(target)), Chars("v_"))
    IN named(insert_match(Strip(stmt)))

\* The statement with "-- " in front of each of its lines
CommentedOut(stmt) ==
    LET prefixed(stmt_lines) ==
            JoinWith([k \in 1..Len(stmt_lines) |-> Chars("-- ") \o stmt_lines[k]], <<"\n">>)
    IN prefixed(SplitOn(stmt, "\n"))

DivertedStatements == SelectSeq(Statements, Diverted)

KeptStatements == SelectSeq(Statements, LAMBDA stmt : ~Diverted(stmt))

\* What the diverted statements put into the side-channel
DivertedText ==
    LET text(diverted) ==
            Flatten([k \in 1..Len(diverted) |-> CommentedOut(diverted[k]) \o <<"\n">>])
    IN text(DivertedStatements)

\* C8: when the partitioner and the repair are done, the insert-only stream
\* is the kept statements, trimmed, in input order, and the side-channel ends
\* with the diverted statements, each line commented out, in input order; no
\* diverted statement occurs in the insert-only stream or in the repaired
\* stream.
C8_Partition ==
    pc = "step4" =>
        LET partitioned(kept, diverted) ==
                /\ Get(insert_temp_file) =
                      Flatten([k \in 1..Len(kept) |-> Strip(kept[k]) \o <<"\n">>])
                /\ Get(extra_file) = BlockText \o DivertedText
                /\ \A k \in 1..Len(diverted) :
                      /\ ~Contains(Get(insert_temp_file), Strip(diverted[k]))
                      /\ ~Contains(Get(refined_file), Strip(diverted[k]))
        IN partitioned(KeptStatements, DivertedStatements)

\* A run that kept one statement and diverted another of more than one line
C8_Witness ==
    /\ pc = "step4"
    /\ KeptStatements # <<>>
    /\ \E k \in 1..Len(DivertedStatements) : Contains(DivertedStatements[k], <<"\n">>)
    /\ Get(refined_file) # <<>>

\* The position in the input of the first character of each line
LineStarts ==
    LET of(lines) == [k \in 1..Len(lines) |-> 1 + Len(Flatten(SubSeq(lines, 1, k - 1)))]
    IN of(InputLines)

\* The lines outside every block and every statement: the class of the line
\* is "none", none of its characters is in a statement cut out, and it is
\* not blank
StrayLines ==
    LET stray(lines, classes, starts) ==
            {k \in 1..Len(lines) :
                /\ classes[k] = "none"
                /\ \A n \in 1..Len(statements) :
                      \/ statements[n][1] > starts[k] + Len(lines[k]) - 1
                      \/ statements[n][2] < starts[k]
                /\ Strip(lines[k]) # <<>>}
    IN stray(InputLines, LineClasses(InputLines, 1, FALSE), LineStarts)

\* The input with every stray line emptied
RecognisedText ==
    LET text(lines, stray) ==
            Flatten([k \in 1..Len(lines) |-> IF k \in stray THEN <<"\n">> ELSE lines[k]])
    IN text(InputLines, StrayLines)

\* The stray lines whose text is not also the text of a recognised part of
\* the input, as text
StrayTexts ==
    LET texts(lines, stray, recognised) ==
            {line \in {Strip(lines[k]) : k \in stray} : ~Contains(recognised, line)}
    IN texts(InputLines, StrayLines, RecognisedText)

\* The content of the files of the run that exist
Outputs == {Get(f) : f \in {f \in {create_file, extra_file, insert_temp_file, refined_file,
                                   final_output_file} : ~IsNone(f)}}

C10_VerbatimBlocks ==
    /\ pc = "step2" => Get(extra_file) = BlockText /\ meta_lines \cap BlockLines = {}
    /\ pc = "step4" => Get(extra_file) = BlockText \o DivertedText
    /\ pc = "done" =>
          EndsWith(Get(final_output_file),
                   Chars("-- Start of in_temp_extra.sql") \o <<"\n">>
                   \o BlockText \o DivertedText
                   \o <<"\n">> \o Chars("-- End of in_temp_extra.sql") \o <<"\n", "\n">>)

\* A finished run with a verbatim block and a diverted statement
C10_Witness ==
    /\ pc = "done"
    /\ BlockText # <<>>
    /\ DivertedText # <<>>

\* The positions of a text that are not blanks outside quoted literals
Squeezed(text) ==
    LET st == QuoteScan(text)
    IN SelectSeq([i \in 1..Len(text) |-> i],
                 LAMBDA i : ~(st.outside[i] /\ text[i] \in Whitespace))

\* The text without the blanks outside quoted literals
Squeeze(text) == LET keep == Squeezed(text) IN [k \in 1..Len(keep) |-> text[keep[k]]]

\* C7: when no table has metadata, the repaired stream has the tokens of the
\* insert-only stream, in the same order; only blanks between tokens and
\* line breaks differ.
C7_Passthrough ==
    (pc = "step4" /\ DOMAIN table_metadata = {})
    => Squeeze(Get(refined_file)) = Squeeze(Get(insert_temp_file))

\* The scanner of row tuples: parentheses and commas count outside quoted
\* literals only
tuple_init == [in_single |-> FALSE, in_double |-> FALSE, escape |-> FALSE,
               depth |-> 0, current |-> <<>>, values |-> <<>>, tuples |-> <<>>]

tuple_step(st, ch) ==
    LET outside == ~st.in_single /\ ~st.in_double
        st1 == IF outside /\ ch = "(" /\ st.depth = 0
                  THEN [st EXCEPT !.depth = 1, !.current = <<>>, !.values = <<>>]
               ELSE IF outside /\ ch = "("
                  THEN [st EXCEPT !.depth = @ + 1, !.current = Append(@, ch)]
               ELSE IF outside /\ ch = ")" /\ st.depth = 1
                  THEN [st EXCEPT !.depth = 0,
                                  !.tuples = Append(@, Append(st.values, Strip(st.current)))]
               ELSE IF outside /\ ch = ")" /\ st.depth > 1
                  THEN [st EXCEPT !.depth = @ - 1, !.current = Append(@, ch)]
               ELSE IF outside /\ ch = "," /\ st.depth = 1
                  THEN [st EXCEPT !.values = Append(@, Strip(st.current)), !.current = <<>>]
               ELSE IF st.depth >= 1 THEN [st EXCEPT !.current = Append(@, ch)]
               ELSE st
    IN part_flags(st1, ch)

RECURSIVE tuple_run(_, _, _, _)
tuple_run(st, text, i, j) ==
    IF i > j THEN st
    ELSE IF i = j THEN tuple_step(st, text[i])
    ELSE LET m == (i + j) \div 2
             left == tuple_run(st, text, i, m)
         IN IF DOMAIN left = {} THEN left ELSE tuple_run(left, text, m + 1, j)

\* The row tuples of a statement, each the list of its values
Tuples(stmt) == tuple_run(tuple_init, stmt, 1, Len(stmt)).tuples

RECURSIVE Unescaped(_)
\* The string a quoted literal with the given interior stands for
Unescaped(inner) ==
    IF inner = <<>> THEN <<>>
    ELSE IF Len(inner) >= 2 /\ inner[1] = Backslash
        THEN <<inner[2]>> \o Unescaped(SubSeq(inner, 3, Len(inner)))
    ELSE IF Len(inner) >= 2 /\ inner[1] = Quote /\ inner[2] = Quote
        THEN <<Quote>> \o Unescaped(SubSeq(inner, 3, Len(inner)))
    ELSE <<inner[1]>> \o Unescaped(Tail(inner))

\* A quoted value meets the constraints of its column
MeetsColumn(value, col) ==
    LET inner == Unescaped(Interior(value)) IN
    /\ ~IsNone(col.varchar_length) => Len(Encode(inner)) <= Get(col.varchar_length)
    /\ ~IsNone(col.enum_values) => inner \in Range(Get(col.enum_values))

\* The statements of the repaired stream
RepairedStatements ==
    LET text == Get(refined_file)
        found == write_insert_statements(text).found
    IN [k \in 1..Len(found) |-> SubSeq(text, found[k][1], found[k][2])]

\* C1: in the repaired stream every quoted value of every row tuple of an
\* INSERT into a table with metadata meets its column's constraints, on the
\* header line or below it, alone on its line or not.
C1_RepairedValuesValid ==
    pc = "step4" =>
        \A k \in 1..Len(RepairedStatements) :
            LET stmt == RepairedStatements[k]
                target == insert_match(Strip(stmt))
            IN (~IsNone(target) /\ Get(target) \in DOMAIN table_metadata) =>
                \A tuple \in Range(Tuples(stmt)) :
                    \A col \in Range(table_metadata[Get(target)]) :
                        (col.index < Len(tuple) /\ is_quoted(tuple[col.index + 1])
                         /\ Len(tuple[col.index + 1]) >= 2)
                        => MeetsColumn(tuple[col.index + 1], col)

\* C11: for the worked example's table t (id int, name varchar(250) not null,
\* status enum('a','b') not null) and its row (1,'','z'), the schema block
\* declares name as VARCHAR(191) and the repaired row has the tokens 1, ''
\* and 'a'.
C11_ScenarioA ==
    (pc = "step4" /\ input_file \in ScenarioA) =>
        /\ Contains(Get(create_file), Chars("VARCHAR(191)"))
        /\ \E k \in 1..Len(RepairedStatements) :
              <<Chars("1"), Chars("''"), Chars("'a'")>> \in Range(Tuples(RepairedStatements[k]))

\* A file's content between the two markers that carry its name
Wrapped(name, content) ==
    Chars("-- Start of ") \o Chars(name) \o <<"\n">> \o content
    \o <<"\n">> \o Chars("-- End of ") \o Chars(name) \o <<"\n", "\n">>

\* C12: the final file is the schema block, the repaired insert stream and the
\* side-channel block in that order, each between its own "-- Start of" and
\* "-- End of" markers and none inside another, and it is written only after
\* stages 1 to 3 have read their inputs to the end and left their files.
C12_AssemblyOrder ==
    ~IsNone(final_output_file) =>
        /\ pc \in {"step5", "done"}
        /\ fin = Len(Lines(input_file))
        /\ pc = "step5" =>
              /\ ~IsNone(json_index_file) /\ ~IsNone(insert_temp_file)
              /\ infile = Len(Lines(Get(insert_temp_file)))
              /\ Get(final_output_file) =
                     Wrapped("in_0.sql", Get(create_file))
                     \o Wrapped("in_temp_refined.sql", Get(refined_file))
                     \o Wrapped("in_temp_extra.sql", Get(extra_file))

\* The final file has been written from a schema block and a repaired stream
\* that both hold text
C12_Witness ==
    /\ pc = "step5" /\ ~IsNone(final_output_file)
    /\ Get(create_file) # <<>> /\ Get(refined_file) # <<>>

\* The final file holds neither marker of the named scratch file
Unmarked(name) ==
    /\ ~Contains(Get(final_output_file), Chars("-- Start of ") \o Chars(name))
    /\ ~Contains(Get(final_output_file), Chars("-- End of ") \o Chars(name))

\* C13: a fragment with nothing behind it is skipped: with no view, trigger,
\* procedure or function block in the input and no diverted INSERT the final
\* file holds neither marker of the side-channel fragment, and likewise the
\* schema and insert fragments when nothing was captured for them.
C13_EmptyFragmentSkipped ==
    pc = "step5" =>
        /\ (BlockText = <<>> /\ DivertedStatements = <<>>) => Unmarked("in_temp_extra.sql")
        /\ Get(create_file) = <<>> => Unmarked("in_0.sql")
        /\ Get(refined_file) = <<>> => Unmarked("in_temp_refined.sql")

\* The files of the working directory "chunks"
ScratchFiles == {create_file, extra_file, json_index_file, insert_temp_file, refined_file}

\* C14: once a call has ended, with the final path returned or with an
\* exception out of any stage, nothing of the working directory exists.
C14_ScratchDeleted ==
    pc \in {"done", "error"} => \A file \in ScratchFiles : IsNone(file)

\* The line read next opens a view, trigger, procedure or function block that
\* no line up to the end of the input closes
OpenBlockAhead ==
    /\ pc = "step1" /\ fin < Len(InputLines)
    /\ OpensBlock(InputLines[fin + 1])
    /\ \A k \in (fin + 1)..Len(InputLines) : ~Closes(InputLines[k])

\* C15: an exception is not recovered inside the pipeline: a block still open
\* at the end of the input raises, and from then on no stage runs, no later
\* stage's file appears and no final path comes back.
C15_ExceptionPropagates ==
    [][/\ OpenBlockAhead => pc' = "error"
       /\ (pc = "error" \/ pc' = "error") =>
             /\ pc' = "error"
             /\ IsNone(final_output_file') /\ IsNone(json_index_file')
             /\ IsNone(insert_temp_file') /\ IsNone(refined_file')]_vars

\* The call has stopped with the exception of an open block
C15_Witness ==
    /\ pc = "error" /\ fin = Len(InputLines)
    /\ \E k \in 1..Len(InputLines) : OpensBlock(InputLines[k])
    /\ IsNone(final_output_file)

\* The lines of the insert stream step 3 has read
LinesRead == SubSeq(Lines(Get(insert_temp_file)), 1, infile)

\* The column list recorded for the table that the last INSERT header line
\* among the given lines names, empty without such a table
ActiveColumns(lines) ==
    LET headers == {k \in DOMAIN lines :
                      StartsWith(Lower(Strip(lines[k])), Chars("insert into"))}
        listed(name) == IF ~IsNone(name) /\ Get(name) \in DOMAIN table_metadata
                        THEN table_metadata[Get(name)] ELSE <<>>
        last_header(k) == listed(insert_match(Strip(lines[k])))
    IN IF headers = {} THEN <<>>
       ELSE last_header(CHOOSE k \in headers : \A j \in headers : j <= k)

\* Step 3 is about to repair a row: the line read next completes a row, or a
\* row is buffered and a header line or the end of the stream follows
RepairAhead ==
    /\ pc = "step3" /\ ~IsNone(refined_file)
    /\ IF infile < Len(Lines(Get(insert_temp_file)))
       THEN LET stripped == Strip(NextInsertLine)
            IN IF StartsWith(Lower(stripped), Chars("insert into")) THEN row_buffer # <<>>
               ELSE /\ StartsWith(stripped, <<"(">>) \/ accumulating_row
                    /\ EndsWith(stripped, <<")", ",">>) \/ EndsWith(stripped, <<")", ";">>)
       ELSE row_buffer # <<>>

\* The text step 3 hands to fix_row in the repair that is ahead
HandedOver ==
    IF infile < Len(Lines(Get(insert_temp_file)))
       /\ ~StartsWith(Lower(Strip(NextInsertLine)), Chars("insert into"))
    THEN Flatten(Append(row_buffer, NextInsertLine))
    ELSE Flatten(row_buffer)

\* C28: the row accumulator hands only complete tuples to fix_row: the text
\* of every repair has balanced quotes, a line that ends in ")," or ");"
\* inside an open quoted literal does not end the row.
C28_CompleteTuples == RepairAhead => Balanced(HandedOver)

\* C30: a run only reads its input: at every point of a run the file at the
\* path of the input holds what it held when the run began, wherever the input
\* is located, the output folder included.
C30_InputUntouched == InputOnDisk = input_file

\* C20: whenever a row is repaired the column list used is the one recorded
\* for the table named by the most recent INSERT header line before the row,
\* empty when that table has no metadata, never the list of an earlier
\* statement's table.
C20_ActiveColumnList ==
    RepairAhead => current_columns = ActiveColumns(LinesRead)

\* A line of the insert stream that is an INSERT header
IsHeader(line) == StartsWith(Lower(Strip(line)), Chars("insert into"))

\* A line that completes a row
EndsRow(line) == EndsWith(Strip(line), <<")", ",">>) \/ EndsWith(Strip(line), <<")", ";">>)

\* The column list in force at line k: that of the last header before line k
\* on which the header pattern finds a table
ColumnsAt(lines, k) ==
    LET switching == {j \in 1..(k - 1) : IsHeader(lines[j]) /\ ~IsNone(header_match(Strip(lines[j])))}
        listed(name) == IF name \in DOMAIN table_metadata THEN table_metadata[name] ELSE <<>>
        last(j) == listed(Get(header_match(Strip(lines[j]))))
    IN IF switching = {} THEN <<>> ELSE last(CHOOSE j \in switching : \A i \in switching : i <= j)

RECURSIVE RepairedFrom(_, _)
\* What the lines from line k on contribute to the repaired stream: a header
\* or other line itself; a row, from the line that opens it through the first
\* line that completes it, or up to the next header or the end of the stream,
\* as one repaired text
RepairedFrom(lines, k) ==
    IF k > Len(lines) THEN <<>>
    ELSE IF IsHeader(lines[k]) \/ ~StartsWith(Strip(lines[k]), <<"(">>)
    THEN lines[k] \o RepairedFrom(lines, k + 1)
    ELSE LET stops == {j \in k..Len(lines) :
                         \/ EndsRow(lines[j])
                         \/ j = Len(lines)
                         \/ IsHeader(lines[j + 1])}
             unit(last) == fix_row(Flatten(SubSeq(lines, k, last)), ColumnsAt(lines, k))
                           \o RepairedFrom(lines, last + 1)
         IN unit(Least(stops))

\* During step 3 the buffer holds the last lines read, and at the end of the
\* stream the repaired stream is what the lines contribute, one after another
Accumulated ==
    /\ (pc = "step3" /\ ~IsNone(refined_file)) =>
          /\ Len(row_buffer) <= infile
          /\ row_buffer = SubSeq(Lines(Get(insert_temp_file)), infile - Len(row_buffer) + 1, infile)
          /\ \A k \in DOMAIN row_buffer : ~IsHeader(row_buffer[k])
    /\ pc = "step4" => Get(refined_file) = RepairedFrom(Lines(Get(insert_temp_file)), 1)

\* C21: every line of the insert stream contributes to the repaired stream
\* once and in input order, headers and other lines as they are and rows
\* through one repair; a row buffered when a header arrives is emitted before
\* the header, a row buffered at the end of the stream is emitted, and the
\* buffer is empty at the end.
C21_RowAccumulation ==
    /\ Accumulated
    /\ pc = "step4" => row_buffer = <<>>

\* C21 as the code has it: the same, but the final flush does not clear the
\* buffer, which still holds the lines of the row it has just emitted.
C21_RowAccumulationEmitted == Accumulated

\* The stream has ended on a buffered row, which the final flush has emitted
C21_Witness ==
    /\ pc = "step4" /\ row_buffer # <<>>
    /\ Get(refined_file) = RepairedFrom(Lines(Get(insert_temp_file)), 1)

\* Where a reader of SQL text is after a character: outside every literal,
\* inside a single- or double-quoted literal, or right after a backslash in one
LitNext(q, ch) ==
    CASE q = "out" -> IF ch = Quote THEN "single" ELSE IF ch = DQuote THEN "double" ELSE "out"
      [] q = "single" -> IF ch = Backslash THEN "single_esc"
                         ELSE IF ch = Quote THEN "out" ELSE "single"
      [] q = "double" -> IF ch = Backslash THEN "double_esc"
                         ELSE IF ch = DQuote THEN "out" ELSE "double"
      [] q = "single_esc" -> "single"
      [] q = "double_esc" -> "double"

RECURSIVE LitAfter(_, _, _, _)
\* Where the reader is after the characters i..j of a text, from q before them
LitAfter(q, text, i, j) ==
    IF i > j THEN q
    ELSE IF i = j THEN LitNext(q, text[i])
    ELSE LET m == (i + j) \div 2
             left == LitAfter(q, text, i, m)
         IN IF left = "" THEN left ELSE LitAfter(left, text, m + 1, j)

\* An "insert into" token starts at position p
Token(s, p) == p + 10 <= Len(s) /\ Lower(SubSeq(s, p, p + 10)) = Chars("insert into")

\* The ";" at which the statement that starts at position a ends
Ends(s, a) == {e \in a..Len(s) : s[e] = ";" /\ LitAfter("out", s, a, e) = "out"}

\* C22: an extracted statement starts at the first "insert into" token after
\* the statement before it and ends at the first ";" outside quoted literals;
\* a ";" in a literal, also after an escaped quote, does not end it, and an
\* "insert into" inside an open statement starts nothing; what follows the last
\* statement holds no complete statement.
C22_StatementBoundaries ==
    (pc = "step3" /\ IsNone(refined_file)) =>
        LET bounded(s, found) ==
                /\ \A k \in DOMAIN found :
                      LET from == IF k = 1 THEN 1 ELSE found[k - 1][2] + 1
                      IN /\ Token(s, found[k][1])
                         /\ \A p \in from..(found[k][1] - 1) : ~Token(s, p)
                         /\ found[k][2] = Least(Ends(s, found[k][1]))
                /\ LET from == IF found = <<>> THEN 1 ELSE found[Len(found)][2] + 1
                   IN \A p \in from..Len(s) :
                         (Token(s, p) /\ \A o \in from..(p - 1) : ~Token(s, o))
                         => Ends(s, p) = {}
        IN bounded(input_file, statements)

\* A statement has been cut out that holds a ";" before its end and a
\* backslash, and another that holds "insert into" after its start
C22_Witness ==
    /\ pc = "step3" /\ IsNone(refined_file)
    /\ \E k \in DOMAIN statements :
          /\ \E x \in (statements[k][1] + 1)..(statements[k][2] - 1) : input_file[x] = ";"
          /\ \/ \E x \in statements[k][1]..statements[k][2] : input_file[x] = Backslash
             \/ \E x \in (statements[k][1] + 1)..statements[k][2] : Token(input_file, x)

\* One iteration of the loop of write_insert_statements, with a note of
\* whether the flags have been clear each time no statement was open
clear_step(s, st) ==
    LET next == part_iter(s, st)
    IN [next EXCEPT !.clear = st.clear /\ (IsNone(next.start) =>
                                  ~next.in_single /\ ~next.in_double /\ ~next.escape)]

RECURSIVE clear_run(_, _, _)
clear_run(s, st, k) ==
    IF k = 0 THEN st
    ELSE IF k = 1 THEN clear_step(s, st)
    ELSE LET left == clear_run(s, st, k \div 2)
         IN IF DOMAIN left = {} THEN left ELSE clear_run(s, left, k - (k \div 2))

\* The flags were clear at the head of every iteration that found no
\* statement open, and are so after the last one
FlagsClear(s) ==
    clear_run(s, [i |-> 1, in_single |-> FALSE, in_double |-> FALSE, escape |-> FALSE,
                  start |-> None, out |-> <<>>, extra |-> <<>>, found |-> <<>>,
                  clear |-> TRUE], Len(s)).clear

\* C31: whenever no statement is open in the partitioner, before the first
\* "insert into" and after each terminating ";", the flags in_single,
\* in_double and escape are all false: the quote state of one statement does
\* not leak into the next.
C31_FlagHygiene ==
    (pc = "step3" /\ IsNone(refined_file)) => FlagsClear(input_file)

\* Two statements have been cut out, the first with a ";" and a quote
\* before its end
C31_Witness ==
    /\ pc = "step3" /\ IsNone(refined_file)
    /\ Len(statements) >= 2
    /\ \E x \in (statements[1][1] + 1)..(statements[1][2] - 1) : input_file[x] = ";"
    /\ \E x \in statements[1][1]..statements[1][2] : input_file[x] \in {Quote, DQuote}

-----------------------------------------------------------------------------
(* truncate_value run on its own, one statement group per step *)

\* Longest tail appended to the padding of a value
MaxTail == 2

TailChars == {"a", "U00E9", "U20AC", "U1F600", Quote, Backslash}

\* n times the letter x
Pad(n) == [i \in 1..n |-> "x"]

\* Paddings that put the tail across the two target lengths
PadLens == {0} \cup ((VarcharShort - 3)..VarcharShort) \cup ((VarcharLong - 3)..VarcharLong)

\* A column descriptor
Col(name, type, nullable, default, index, varchar_length, enum_values) ==
    [name |-> name, type |-> type, nullable |-> nullable, default |-> default,
     index |-> index, varchar_length |-> varchar_length, enum_values |-> enum_values]

TruncCols ==
    { Col(Chars("c"), Chars("varchar(100)"), FALSE, None, 0, Some(VarcharShort), None),
      Col(Chars("c"), Chars("varchar(191)"), FALSE, None, 0, Some(VarcharLong), None),
      Col(Chars("c"), Chars("text"), FALSE, None, 0, None, None) }

TruncValues ==
    { q \o Pad(p) \o t \o q : q \in {<<Quote>>, <<DQuote>>}, p \in PadLens,
                               t \in SeqsUpTo(TailChars, MaxTail) }
    \cup { Pad(p) : p \in {1, VarcharShort + 1} }

TInit ==
    /\ t_pc = "enter"
    /\ t_value \in TruncValues
    /\ t_col \in TruncCols
    /\ t_inner = <<>>
    /\ truncated_bytes = <<>>
    /\ t_trims = 0
    /\ t_result = None
    /\ PStart(<<>>)
    /\ RIdle
    /\ AppStart
    /\ LIdle

\* Lines 233-235 and 253: an unquoted value is returned as it is
TruncUnquoted ==
    /\ t_pc = "enter"
    /\ ~is_quoted(t_value)
    /\ t_result' = Some(t_value)
    /\ t_pc' = "done"
    /\ UNCHANGED <<pvars, rvars, avars, lvars, t_value, t_col, t_inner, truncated_bytes, t_trims>>

\* Lines 236-244: interior, sanitize, enum check, encode and slice
TruncEnter ==
    /\ t_pc = "enter"
    /\ is_quoted(t_value)
    /\ LET inner == enum_checked(sanitize_value(Interior(t_value)), t_col.enum_values) IN
        /\ t_inner' = inner
        /\ IF needs_truncation(inner, t_col.varchar_length)
           THEN /\ truncated_bytes' = sliced(Encode(inner), Get(t_col.varchar_length))
                /\ t_pc' = "loop"
           ELSE /\ truncated_bytes' = <<>>
                /\ t_pc' = "escape"
    /\ UNCHANGED <<pvars, rvars, avars, lvars, t_value, t_col, t_trims, t_result>>

\* Lines 246-248: the decode succeeds, break
TruncDecoded ==
    /\ t_pc = "loop"
    /\ Decodable(truncated_bytes)
    /\ t_inner' = Decode(truncated_bytes)
    /\ t_pc' = "escape"
    /\ UNCHANGED <<pvars, rvars, avars, lvars, t_value, t_col, truncated_bytes, t_trims, t_result>>

\* Lines 249-250: UnicodeDecodeError, drop the last byte
TruncTrimByte ==
    /\ t_pc = "loop"
    /\ ~Decodable(truncated_bytes)
    /\ truncated_bytes' = SubSeq(truncated_bytes, 1, Len(truncated_bytes) - 1)
    /\ t_trims' = t_trims + 1
    /\ UNCHANGED <<pvars, rvars, avars, lvars, t_pc, t_value, t_col, t_inner, t_result>>

\* Lines 251-252
TruncReturn ==
    /\ t_pc = "escape"
    /\ t_result' = Some(requoted(t_inner))
    /\ t_pc' = "done"
    /\ UNCHANGED <<pvars, rvars, avars, lvars, t_value, t_col, t_inner, truncated_bytes, t_trims>>

TNext == TruncUnquoted \/ TruncEnter \/ TruncDecoded \/ TruncTrimByte \/ TruncReturn

SpecTrunc == TInit /\ [][TNext]_vars /\ WF_vars(TNext)

IsPrefix(a, b) == Len(a) <= Len(b) /\ SubSeq(b, 1, Len(a)) = a

\* The interior as it stands before lines 241-250
BeforeTruncation == enum_checked(sanitize_value(Interior(t_value)), t_col.enum_values)

C5_AfterTruncation ==
    (t_pc \in {"escape", "done"} /\ is_quoted(t_value) /\ ~IsNone(t_col.varchar_length)) =>
        LET N == Get(t_col.varchar_length)
            orig == BeforeTruncation
        IN /\ Len(Encode(orig)) <= N => t_inner = orig
           /\ IsPrefix(t_inner, orig)
           /\ Len(Encode(t_inner)) <= N
           /\ Decodable(Encode(t_inner))
           /\ Decode(Encode(t_inner)) = t_inner
           /\ truncated(t_inner, t_col.varchar_length) = t_inner
           /\ (t_pc = "done" => t_result = Some(requoted(t_inner)))

\* C5: truncation to a varchar target length N leaves an interior of at most
\* N bytes unchanged (so a second truncation changes nothing); a longer
\* interior becomes a prefix of itself of at most N bytes that is valid UTF-8;
\* the trimming loop stops, after dropping at most three bytes.
C5_Truncation ==
    /\ C5_AfterTruncation
    /\ t_trims <= 3
    /\ (t_pc = "loop" => Len(truncated_bytes) + t_trims = Get(t_col.varchar_length))

\* A value cut inside a multi-byte character, trimmed and returned
C5_Witness ==
    /\ t_pc = "done"
    /\ t_trims > 0
    /\ Len(Encode(BeforeTruncation)) > Get(t_col.varchar_length)
    /\ Len(Encode(t_inner)) < Get(t_col.varchar_length)

RECURSIVE RunLen(_, _, _)
\* Length of the run of the character c that starts at position i of s
RunLen(s, i, c) == IF i > Len(s) \/ s[i] # c THEN 0 ELSE 1 + RunLen(s, i + 1, c)

\* Every maximal run of the character c in s has even length
Doubled(s, c) ==
    \A i \in DOMAIN s :
        (s[i] = c /\ (i = 1 \/ s[i - 1] # c)) => RunLen(s, i, c) % 2 = 0

\* C25: a quoted non-empty literal comes back wrapped in single quotes,
\* whatever its delimiter was, and inside the emitted literal every single
\* quote and every backslash stands in a doubled run, so that no lone quote
\* ends the literal early.
C25_OutputQuoting ==
    (t_pc = "done" /\ is_quoted(t_value) /\ Len(t_value) > 2) =>
        LET quoted(result) ==
                /\ Len(result) >= 2
                /\ result[1] = Quote
                /\ result[Len(result)] = Quote
                /\ Doubled(Interior(result), Quote)
                /\ Doubled(Interior(result), Backslash)
        IN quoted(Get(t_result))

\* A double-quoted value cut between a quote and a backslash, returned
C25_Witness ==
    /\ t_pc = "done"
    /\ t_value[1] = DQuote
    /\ t_inner # <<>>
    /\ t_inner[Len(t_inner)] = Quote
    /\ Backslash \in Range(BeforeTruncation)
    /\ ~IsNone(t_col.varchar_length)
    /\ Len(Encode(BeforeTruncation)) > Get(t_col.varchar_length)

-----------------------------------------------------------------------------
(* app.py: the window, its uploads and its worker threads *)

\* Largest number of uploads the user makes
MaxUploads == 2

\* The files the dialog can return, by base name; "" is a cancelled dialog
UploadPaths == {"a", "b"}

\* Lines 20-24 of app.py: clean_temp_folders() applied to the directory
\* "chunks"; a folder that exists is removed with all it holds, an absent one
\* is left alone
clean_temp_folders(folder) == IF ~IsNone(folder) THEN None ELSE folder

\* Lines 232-243 of app.py: the user clicks "Upload SQL File"
upload_file ==
    /\ ~a_closed
    /\ Len(a_workers) < MaxUploads
    /\ \E file_path \in UploadPaths \cup {""} :
          IF file_path = "" THEN UNCHANGED avars
          ELSE /\ a_log_area' = <<>>
               /\ a_progress' = 0
               /\ a_workers' = Append(a_workers, [input_file |-> file_path, at |-> "started",
                                                  output_file |-> None])
               /\ a_worker' = Len(a_workers) + 1
               /\ UNCHANGED <<a_chunks, a_results, a_signals, a_closed>>
    /\ UNCHANGED <<tvars, pvars, rvars, lvars>>

\* Lines 39-58 of app.py: the thread of worker w takes its next step through
\* run and the stages of refine_sql, each of which logs through log_func; the
\* scratch file of a kind is named from the base name of the input (refine.py
\* 90-95); a stage that finds the working directory or a file it opens for
\* reading gone raises, and so does step 1 on an input it cannot read to the
\* end; run logs the error and emits "" for it
WorkerRun(w) ==
    LET self == a_workers[w]
        base == self.input_file
        moved(at) == [a_workers EXCEPT ![w].at = at]
        log(message) == [from |-> w, signal |-> "log", arg |-> message]
        finished(path) == [from |-> w, signal |-> "finished", arg |-> path]
        failed == /\ a_workers' = moved("finished")
                  /\ a_signals' = a_signals \o <<log("Error"), finished("")>>
                  /\ UNCHANGED <<a_chunks, a_results>>
        wrote(kinds, at) ==
            /\ a_chunks' = Some(Get(a_chunks) \cup {<<base, kind>> : kind \in kinds})
            /\ a_workers' = moved(at)
            /\ a_signals' = Append(a_signals, log(self.at))
            /\ UNCHANGED a_results
        holds(kinds) == /\ ~IsNone(a_chunks)
                        /\ \A kind \in kinds : <<base, kind>> \in Get(a_chunks)
    IN /\ self.at \notin {"finished", "terminated"}
       /\ CASE self.at = "started" ->
                 \* refine.py 85-98: both directories are made, exist_ok
                 /\ a_chunks' = IF IsNone(a_chunks) THEN Some({}) ELSE a_chunks
                 /\ a_workers' = moved("step1")
                 /\ a_signals' = Append(a_signals, log("Starting refinement..."))
                 /\ UNCHANGED a_results
            [] self.at = "step1" ->
                 \E readable \in BOOLEAN :
                    IF readable /\ holds({})
                    THEN wrote({"0", "temp_extra", "indexes"}, "step2") ELSE failed
            [] self.at = "step2" ->
                 IF holds({}) THEN wrote({"temp", "temp_extra"}, "step3") ELSE failed
            [] self.at = "step3" ->
                 IF holds({"indexes", "temp"}) THEN wrote({"temp_refined"}, "step4") ELSE failed
            [] self.at = "step4" ->
                 /\ a_results' = a_results \cup {base}
                 /\ a_workers' = moved("step5")
                 /\ a_signals' = Append(a_signals, log(self.at))
                 /\ UNCHANGED a_chunks
            [] self.at = "step5" ->
                 /\ a_chunks' = None
                 /\ a_workers' = [a_workers EXCEPT ![w].at = "returned",
                                                   ![w].output_file = Some(base)]
                 /\ a_signals' = Append(a_signals, log(self.at))
                 /\ UNCHANGED a_results
            [] self.at = "returned" ->
                 \* shutil.move of results/<base>.sql onto itself
                 IF base \in a_results
                 THEN /\ a_workers' = moved("finished")
                      /\ a_signals' = Append(a_signals, finished(base))
                      /\ UNCHANGED <<a_chunks, a_results>>
                 ELSE failed
       /\ UNCHANGED <<a_worker, a_log_area, a_progress, a_closed, tvars, pvars, rvars, lvars>>

\* Lines 244-247 of app.py: the GUI thread handles a log_signal
append_log ==
    /\ ~a_closed
    /\ a_signals # <<>>
    /\ Head(a_signals).signal = "log"
    /\ a_log_area' = Append(a_log_area, Head(a_signals).arg)
    /\ a_signals' = Tail(a_signals)
    /\ UNCHANGED <<a_workers, a_worker, a_chunks, a_results, a_progress, a_closed,
                   tvars, pvars, rvars, lvars>>

\* The progress bar is set to 100 whatever the signal carries
refine_done_Always100 ==
    /\ ~a_closed
    /\ a_signals # <<>>
    /\ Head(a_signals).signal = "finished"
    /\ a_log_area' = Append(a_log_area, IF Head(a_signals).arg # "" THEN "Refinement complete"
                                        ELSE "Refinement failed!")
    /\ a_progress' = 100
    /\ a_signals' = Tail(a_signals)
    /\ UNCHANGED <<a_workers, a_worker, a_chunks, a_results, a_closed, tvars, pvars, rvars, lvars>>

\* Lines 250-256 of app.py: the GUI thread handles a finished_signal
refine_done ==
    /\ ~a_closed
    /\ a_signals # <<>>
    /\ Head(a_signals).signal = "finished"
    /\ LET final_file == Head(a_signals).arg IN
          IF final_file # ""
          THEN /\ a_log_area' = Append(a_log_area, "Refinement complete")
               /\ a_progress' = 100
          ELSE /\ a_log_area' = Append(a_log_area, "Refinement failed!")
               /\ UNCHANGED a_progress
    /\ a_signals' = Tail(a_signals)
    /\ UNCHANGED <<a_workers, a_worker, a_chunks, a_results, a_closed, tvars, pvars, rvars, lvars>>

\* Lines 287-305 of app.py: the user closes the window; while the dialog is
\* open the GUI thread handles nothing else
closeEvent ==
    /\ ~a_closed
    /\ LET isRunning(w) == a_workers[w].at \notin {"finished", "terminated"} IN
       IF a_worker # 0 /\ isRunning(a_worker)
       THEN \E reply \in {"Yes", "No"} :
               IF reply = "Yes"
               THEN /\ a_workers' = [a_workers EXCEPT ![a_worker].at = "terminated"]
                    /\ a_chunks' = clean_temp_folders(a_chunks)
                    /\ a_closed' = TRUE
               ELSE UNCHANGED <<a_workers, a_chunks, a_closed>>
       ELSE /\ a_chunks' = clean_temp_folders(a_chunks)
            /\ a_closed' = TRUE
            /\ UNCHANGED a_workers
    /\ UNCHANGED <<a_worker, a_results, a_signals, a_log_area, a_progress,
                   tvars, pvars, rvars, lvars>>

AInit == AppStart /\ PStart(<<>>) /\ TIdle /\ RIdle /\ LIdle

ANext ==
    \/ upload_file
    \/ \E w \in DOMAIN a_workers : WorkerRun(w)
    \/ append_log
    \/ refine_done
    \/ closeEvent

SpecApp == AInit /\ [][ANext]_vars

\* One upload has been made: lines 232-243 of app.py have run once
RunInit ==
    /\ \E file_path \in UploadPaths :
          a_workers = <<[input_file |-> file_path, at |-> "started", output_file |-> None]>>
    /\ a_worker = 1
    /\ a_chunks = None
    /\ a_results \in {{}, {"a"}}
    /\ a_signals = <<>>
    /\ a_log_area = <<>>
    /\ a_progress = 0
    /\ a_closed = FALSE
    /\ PStart(<<>>) /\ TIdle /\ RIdle /\ LIdle

RunNext == WorkerRun(1) \/ append_log \/ refine_done \/ closeEvent

\* The window with a single upload, its worker and the signals of that worker
SpecRun == RunInit /\ [][RunNext]_vars

\* The workers that are inside refine_sql
Executing == {w \in DOMAIN a_workers :
                a_workers[w].at \in {"step1", "step2", "step3", "step4", "step5"}}

\* C16: at most one worker executes the pipeline at any time, so no two runs
\* use the directory "chunks" together; an upload made during a run does not
\* start a second run that overlaps the first.
C16_RunsSerialized == Cardinality(Executing) <= 1

\* C26: the cleanup changes nothing where no working area exists and a second
\* cleanup changes nothing; once a close of the window has been accepted every
\* worker has run to its end or was terminated before the cleanup, and the
\* directory "chunks" does not exist.
C26_CloseCleansUp ==
    /\ clean_temp_folders(None) = None
    /\ clean_temp_folders(clean_temp_folders(a_chunks)) = clean_temp_folders(a_chunks)
    /\ a_closed =>
          /\ \A w \in DOMAIN a_workers : a_workers[w].at \in {"finished", "terminated"}
          /\ IsNone(a_chunks)

\* The lines refine_done writes
Verdicts == {"Refinement complete", "Refinement failed!"}

\* C27: a worker that was not terminated emits one finished signal, as the
\* last of its signals; the signal carries a path exactly when refine_sql
\* returned one and "" when it raised, and for "" the window reports the
\* failure and leaves the progress bar below 100.
C27_OutcomeSignal ==
    LET self == a_workers[1]
        queued == SelectSeq(a_signals, LAMBDA sig : sig.signal = "finished")
        handled == SelectSeq(a_log_area, LAMBDA line : line \in Verdicts)
    IN /\ Len(queued) + Len(handled) = (IF self.at = "finished" THEN 1 ELSE 0)
       /\ queued # <<>> =>
             /\ a_signals[Len(a_signals)] = queued[1]
             /\ (queued[1].arg # "") = ~IsNone(self.output_file)
             /\ ~IsNone(self.output_file) => queued[1].arg = Get(self.output_file)
       /\ handled # <<>> =>
             /\ a_signals = <<>>
             /\ a_log_area[Len(a_log_area)] = handled[1]
             /\ (handled[1] = "Refinement complete") = ~IsNone(self.output_file)
             /\ (a_progress = 100) = (handled[1] = "Refinement complete")
       /\ handled = <<>> => a_progress = 0

\* refine_sql raised, and the window has handled the worker's signals
C27_Witness ==
    /\ a_workers[1].at = "finished"
    /\ IsNone(a_workers[1].output_file)
    /\ a_signals = <<>>
    /\ a_log_area[Len(a_log_area)] = "Refinement failed!"
    /\ "Error" \in Range(a_log_area)
    /\ a_progress = 0

-----------------------------------------------------------------------------
(* refine_sql seen through its log messages, one step per logging call *)

\* Longest time a stage takes, in seconds
MaxSeconds == 61

\* The step names refine_sql passes to log_step_start and log_step_end
StepNames ==
    << "Step 1: Extract CREATE TABLEs and metadata",
       "Step 2: Extract INSERT statements",
       "Step 3: Refine INSERT values",
       "Step 4: Concatenate into final SQL",
       "Step 5: Cleanup" >>

\* Lines 10-17: log_step_start(step_name, log_func); the message carries the
\* time and the name, and goes to log_func when there is one, else to print
log_step_start(step_name) ==
    LET msg == <<l_now, "Starting", step_name>>
    IN /\ IF ~IsNone(log_func)
          THEN l_delivered' = Append(l_delivered, msg) /\ UNCHANGED l_printed
          ELSE l_printed' = Append(l_printed, msg) /\ UNCHANGED l_delivered
       /\ step_start' = l_now

\* Lines 19-28: log_step_end(step_name, start_time, log_func); the elapsed
\* time is split by divmod into minutes and seconds
log_step_end(step_name, start_time) ==
    LET elapsed == l_now - start_time
        msg == <<l_now, "Finished", step_name, elapsed \div 60, elapsed % 60>>
    IN IF ~IsNone(log_func)
       THEN l_delivered' = Append(l_delivered, msg) /\ UNCHANGED l_printed
       ELSE l_printed' = Append(l_printed, msg) /\ UNCHANGED l_delivered

\* refine_sql(input_file) or refine_sql(input_file, log_func) is called
LInit ==
    /\ l_pc = <<1, "start">>
    /\ log_func \in {None, Some("callback")}
    /\ l_now = 0
    /\ step_start = 0
    /\ l_delivered = <<>>
    /\ l_printed = <<>>
    /\ PStart(<<>>) /\ TIdle /\ RIdle /\ AppStart

\* Lines 101, 158, 211, 327, 339: a stage begins with log_step_start
LStepStart ==
    /\ l_pc \in (1..5) \X {"start"}
    /\ log_step_start(StepNames[l_pc[1]])
    /\ l_pc' = <<l_pc[1], "body">>
    /\ UNCHANGED <<log_func, l_now, tvars, pvars, rvars, avars>>

\* The body of a stage takes its time; stages 1 to 4 work on files and can
\* raise; lines 335 and 341: stages 4 and 5 end with "log_func and log_func(...)"
LStepBody ==
    /\ l_pc \in (1..5) \X {"body"}
    /\ \E seconds \in {0, MaxSeconds} : l_now' = l_now + seconds
    /\ \/ /\ l_pc' = <<l_pc[1], "end">>
          /\ l_delivered' =
                IF l_pc[1] \in {4, 5} /\ ~IsNone(log_func)
                THEN Append(l_delivered,
                            IF l_pc[1] = 4 THEN <<"Final concatenated SQL">>
                            ELSE <<"Cleanup complete">>)
                ELSE l_delivered
       \/ /\ l_pc[1] \in 1..4
          /\ l_pc' = "raised"
          /\ UNCHANGED l_delivered
    /\ UNCHANGED <<log_func, step_start, l_printed, tvars, pvars, rvars, avars>>

\* Lines 155, 208, 324, 336, 342: a stage ends with log_step_end; after
\* stage 5 the path is returned
LStepEnd ==
    /\ l_pc \in (1..5) \X {"end"}
    /\ log_step_end(StepNames[l_pc[1]], step_start)
    /\ l_pc' = IF l_pc[1] = 5 THEN "returned" ELSE <<l_pc[1] + 1, "start">>
    /\ UNCHANGED <<log_func, l_now, step_start, tvars, pvars, rvars, avars>>

LNext == LStepStart \/ LStepBody \/ LStepEnd

SpecLog == LInit /\ [][LNext]_vars

\* The positions in the delivered messages of the start and the finish
\* message of a step
Positions(word, step_name) ==
    {i \in DOMAIN l_delivered :
        Len(l_delivered[i]) >= 3 /\ l_delivered[i][2] = word /\ l_delivered[i][3] = step_name}

\* C17: without a log callback the pipeline emits no log message anywhere;
\* with one, the start and the finish message of every stage are delivered to
\* it, the start before the finish.
C17_SilentWithoutObserver ==
    /\ IsNone(log_func) => (l_delivered = <<>> /\ l_printed = <<>>)
    /\ (~IsNone(log_func) /\ l_pc = "returned") =>
          \A k \in DOMAIN StepNames :
              \E i \in Positions("Starting", StepNames[k]) :
                  \E j \in Positions("Finished", StepNames[k]) : i < j

-----------------------------------------------------------------------------
(* step 1 of refine_sql run on its own over dumps built line by line *)

\* Largest number of lines of a dump
MaxSchemaLines == 4

\* The lines the dumps are made of (^ is the backtick)
SchemaLines ==
    { Src("CREATE TABLE ^a^ (\n"),             \* opens the block of table a
      Src("CREATE TABLE\n"),                    \* opens a block, the name is on a later line
      Src("CREATE TABLE ^b^ (^y^ int);\n"),     \* a whole block on its opening line
      Src("  ^x^ int NOT NULL,\n"),             \* a column line
      Src("  PRIMARY KEY (^x^)\n"),             \* a key line
      Src(");\n"),                              \* a line that ends in ";"
      Src("CREATE VIEW ^w^ AS\n") }             \* opens a view block

\* refine_sql is called with a dump of up to MaxSchemaLines lines
ScanInit ==
    /\ \E ls \in SeqsUpTo(SchemaLines, MaxSchemaLines) : PStart(Flatten(ls))
    /\ TIdle /\ RIdle /\ AppStart /\ LIdle

ScanNext ==
    \/ Begin
    \/ S1CreateTable \/ S1ExtraBlock \/ S1ExtraBlockOpen \/ S1InsideCreate \/ S1Discard
    \/ S1Finish

SpecScan == ScanInit /\ [][ScanNext]_vars

\* C18: at every point of the schema scan and in the final metadata the
\* column descriptors of each table carry the indices 0, 1, ..., k-1 in list
\* order, whatever lines the input is made of.
C18_OrdinalIndex ==
    \A name \in DOMAIN column_metadata_map :
        \A i \in DOMAIN column_metadata_map[name] :
            column_metadata_map[name][i].index = i - 1

RECURSIVE TableBlocks(_, _)
\* The CREATE TABLE blocks of the lines from line k on: each runs from its
\* opening line through the first line at or after it that ends in ";"; a view,
\* trigger, procedure or function block is passed over
TableBlocks(lines, k) ==
    IF k > Len(lines) THEN <<>>
    ELSE IF OpensTable(lines[k]) \/ OpensBlock(lines[k])
    THEN LET ends == {j \in k..Len(lines) : Closes(lines[j])}
             rest(last) == IF OpensTable(lines[k])
                           THEN <<[first |-> k, last |-> last]>> \o TableBlocks(lines, last + 1)
                           ELSE TableBlocks(lines, last + 1)
         IN IF ends = {} THEN <<>> ELSE rest(Least(ends))
    ELSE TableBlocks(lines, k + 1)

\* C19: every CREATE TABLE block, from its opening line through the first
\* line ending in ";", the opening line included in that search, is written to
\* the schema output once and in input order, and the column lines of the block
\* are the metadata of the block's table.
C19_TableCapture ==
    pc = "step2" =>
        LET captured(lines, blocks) ==
                /\ Get(create_file) =
                      Flatten([b \in DOMAIN blocks |->
                                  Flatten(SubSeq(lines, blocks[b].first, blocks[b].last))
                                  \o <<"\n">>])
                /\ \A b \in DOMAIN blocks :
                      LET name == table_match(Strip(lines[blocks[b].first]))
                          later == {c \in DOMAIN blocks : c > b /\
                                      table_match(Strip(lines[blocks[c].first])) = name}
                      IN (~IsNone(name) /\ later = {}) =>
                            /\ Get(name) \in DOMAIN column_metadata_map
                            /\ column_metadata_map[Get(name)] =
                                  scan_columns(<<>>, 0, SubSeq(lines, blocks[b].first + 1,
                                                              blocks[b].last))
        IN captured(InputLines, TableBlocks(InputLines, 1))

====
